---- MODULE Spec2Model ----
(***************************************************************************)
(* ElectroLens: the serverless endpoint /api/electro-lookup.               *)
(*                                                                         *)
(* The repository holds four revisions of the one handler:                 *)
(*   "rev1"  src/api/electro-lookup.js lines    1..533  (Gemini + Groq)    *)
(*   "rev2"  src/api/electro-lookup.js lines  535..968  (framework body)   *)
(*   "rev3"  src/api/electro-lookup.js lines  970..1495 (DeepSeek/Groq     *)
(*           fallback models, parallel image lookups)                      *)
(*   "rev4"  src/unnamed/part_000 (preferredModel, quotaWarnings)          *)
(* One behaviour of the model is one request handled by one revision.      *)
(*                                                                         *)
(* JavaScript values are records [t, v]: t is the typeof-like tag and v a  *)
(* sequence of text chunks (the string's content).  JSON objects are       *)
(* functions from their own keys to values.                                *)
(***************************************************************************)
EXTENDS Naturals, Sequences, FiniteSets, Bags, TLC

VARIABLES
  rev,            \* which revision of the handler serves the request
  env,            \* process.env: which credentials are configured
  net,            \* the replies each external provider can give in this run
  req,            \* the incoming request: method, headers, body sent
  pc,             \* the handler's position (the await it is suspended at)
  stream,         \* readJsonBody's closure: bytes, the promise, events seen
  loc,            \* the handler's locals
  baseJson,       \* the base record
  lookups,        \* the three image lookups: progress and result
  ds,             \* fetchDatasheetAndReferences' locals
  quotaWarnings,  \* rev4: the list returned in meta.quotaWarnings
  res,            \* the responses sent, in order
  calls,          \* history: the bag of outbound calls issued
  hist,           \* history: what the providers answered
  peer            \* a second request in the same process, suspended at an
                  \* await (NoPeer: there is none)

vars == <<rev, env, net, req, pc, stream, loc, baseJson, lookups, ds,
          quotaWarnings, res, calls, hist, peer>>

Revisions == {"rev1", "rev2", "rev3", "rev4"}

(***************************************************************************)
(* JavaScript values                                                       *)
(***************************************************************************)
Undefined == [t |-> "undefined", v |-> <<>>]
Null == [t |-> "null", v |-> <<>>]
Str(s) == [t |-> "string", v |-> s]
Num(s) == [t |-> "number", v |-> s]

IsValue(x) == DOMAIN x = {"t", "v"}
IsObject(x) == ~IsValue(x)
IsString(x) == IsValue(x) /\ x.t = "string"

\* An array of the values s.
Arr(s) == [t |-> "array", v |-> s]

\* An array or object whose content plays no part (typical_uses: [...]).
Opaque(tag) == [t |-> tag, v |-> <<>>]

\* ToBoolean: "", 0, null and undefined are falsy; objects are truthy.
Truthy(x) ==
  IF IsObject(x) THEN TRUE
  ELSE \/ x.t = "string" /\ x.v # <<>>
       \/ x.t = "number" /\ x.v # <<"0">>
       \/ x.t \in {"array", "object", "boolean"}

\* a || b
Or(a, b) == IF Truthy(a) THEN a ELSE b

\* o.k for an object or a primitive o (not for null or undefined)
Get(o, k) == IF IsObject(o) /\ k \in DOMAIN o THEN o[k] ELSE Undefined

\* `${x}`: the text of a value inside a template literal
ToText(x) ==
  IF IsObject(x) THEN <<"[object Object]">>
  ELSE IF x.t \in {"string", "number"} THEN x.v
  ELSE IF x.t = "object" THEN <<"[object Object]">>
  ELSE IF x.t = "array" THEN <<>>
  ELSE <<x.t>>

(***************************************************************************)
(* Strings: sequences of chunks; a chunk is a word or one separator.       *)
(***************************************************************************)
IsSpace(c) == c \in {" ", "\n"}

RECURSIVE TrimStart(_)
TrimStart(s) ==
  IF s # <<>> /\ IsSpace(Head(s)) THEN TrimStart(Tail(s)) ELSE s

RECURSIVE TrimEnd(_)
TrimEnd(s) ==
  IF s # <<>> /\ IsSpace(s[Len(s)])
  THEN TrimEnd(SubSeq(s, 1, Len(s) - 1))
  ELSE s

\* String.prototype.trim
\* trim as if white space were text
trimNothing(s) == s

trim(s) == TrimEnd(TrimStart(s))

\* String.prototype.toLowerCase, chunk by chunk
LowerChunk(c) ==
  CASE c \in {"AUTO", "Auto"} -> "auto"
    [] c \in {"GEMINI", "Gemini"} -> "gemini"
    [] c \in {"GROQ", "Groq"} -> "groq"
    [] c \in {"DEEPSEEK", "DeepSeek"} -> "deepseek"
    [] c \in {"DATASHEET", "Datasheet"} -> "datasheet"
    [] c = ".PDF" -> ".pdf"
    [] OTHER -> c

\* a toLowerCase that leaves capitals as they are
toLowerCaseKeepsCase(s) == s

toLowerCase(s) == [i \in 1..Len(s) |-> LowerChunk(s[i])]

includes(s, c) == \E i \in 1..Len(s) : s[i] = c

endsWith(s, c) == s # <<>> /\ s[Len(s)] = c

\* encodeURIComponent: reserved characters are percent-encoded, letters,
\* digits and - _ . ! ~ * ' ( ) are kept.
EncodeChunk(c) ==
  CASE c = " " -> "%20"
    [] c = "\n" -> "%0A"
    [] c = "&" -> "%26"
    [] c = "/" -> "%2F"
    [] c = "[object Object]" -> "%5Bobject%20Object%5D"
    [] OTHER -> c

encodeURIComponent(s) == [i \in 1..Len(s) |-> EncodeChunk(s[i])]

Max(S) == CHOOSE m \in S : \A n \in S : n <= m

\* {...x}: the own properties of an object; null and numbers have none.
Spread(x) == IF IsObject(x) THEN x ELSE <<>>

(***************************************************************************)
(* Helpers of the source                                                   *)
(***************************************************************************)

\* /^data:(.+);base64,(.*)$/ on chunks: "data:" first, at least one chunk of
\* mime type, the last ";base64," closing it (.+ is greedy), and no line
\* break, which neither . nor $ accepts.
extractBase64FromDataUrl(dataUrl) ==
  IF ~Truthy(dataUrl) \/ ~IsString(dataUrl) THEN Null
  ELSE IF dataUrl.v[1] # "data:" THEN Null
  ELSE LET s == dataUrl.v
           marks == {i \in 3..Len(s) : s[i] = ";base64,"}
       IN IF marks = {} \/ includes(s, "\n") THEN Null
          ELSE [mimeType |-> Str(SubSeq(s, 2, Max(marks) - 1)),
                base64 |-> Str(SubSeq(s, Max(marks) + 1, Len(s)))]

isQuotaStatus(status) == status = 429 \/ status = 402 \/ status = 403

\* String(err).includes("429") || ... : the marks an error message carries
isQuotaError(msg) ==
  \/ "429" \in msg
  \/ "You exceeded your current quota" \in msg
  \/ "Quota exceeded for metric" \in msg

\* data.items?.[0]?.link || null
FirstItemLink(items) ==
  IF items = <<>> THEN Null ELSE Or(Get(items[1], "link"), Null)

\* first.imageUrl || first.thumbnailUrl || first.link || null; rev3 does
\* not look at first.link.
FirstImageUrl(r, images) ==
  IF images = <<>> THEN Null
  ELSE LET first == images[1] IN
       IF r = "rev3"
       THEN Or(Get(first, "imageUrl"), Or(Get(first, "thumbnailUrl"), Null))
       ELSE Or(Get(first, "imageUrl"),
               Or(Get(first, "thumbnailUrl"), Or(Get(first, "link"), Null)))

MaxReferences == 4
MaxReferencesRev3 == 5

RefCap(r) == IF r = "rev3" THEN MaxReferencesRev3 ELSE MaxReferences

NoDatasheet == [datasheetUrl |-> Null, references |-> <<>>]

\* link.endsWith(".pdf") || link.toLowerCase().includes("datasheet")
IsDatasheetLink(link) ==
  endsWith(link, ".pdf") \/ includes(toLowerCase(link), "datasheet")

\* item.link || ""  (rev3's Serper search: item.link || item.url || "")
ItemLink(r, provider, item) ==
  IF r = "rev3" /\ provider = "serper"
  THEN Or(Get(item, "link"), Or(Get(item, "url"), Str(<<>>)))
  ELSE Or(Get(item, "link"), Str(<<>>))

ItemSnippet(r, provider, item) ==
  IF r = "rev3" /\ provider = "serper"
  THEN Or(Get(item, "snippet"), Or(Get(item, "description"), Str(<<>>)))
  ELSE IF r = "rev1" /\ provider = "serper"
  THEN Or(Get(item, "snippet"), Or(Get(item, "snippetHighlighted"), Str(<<>>)))
  ELSE Or(Get(item, "snippet"), Str(<<>>))

\* The loop over the search results: the first datasheet-like link, and the
\* first RefCap results as references.
RECURSIVE ScanItems(_, _, _, _)
ScanItems(r, provider, items, acc) ==
  IF items = <<>> THEN acc
  ELSE LET item == Head(items)
           link == ItemLink(r, provider, item)
           url == IF ~Truthy(acc.datasheetUrl) /\ IsDatasheetLink(link.v)
                  THEN link ELSE acc.datasheetUrl
           refs == IF Len(acc.references) < RefCap(r)
                   THEN Append(acc.references,
                               [title |-> Or(Get(item, "title"), Str(<<>>)),
                                url |-> link,
                                snippet |-> ItemSnippet(r, provider, item)])
                   ELSE acc.references
       IN ScanItems(r, provider, Tail(items),
                    [datasheetUrl |-> url, references |-> refs])

ShopKeys == {"shopee", "lazada", "amazon", "aliexpress"}

ShopTemplate(shop, q) ==
  CASE shop = "shopee" -> <<"https://shopee.ph/search?keyword=">> \o q
    [] shop = "lazada" -> <<"https://www.lazada.com.ph/tag/">> \o q \o <<"/">>
    [] shop = "amazon" -> <<"https://www.amazon.com/s?k=">> \o q
    [] shop = "aliexpress" ->
         <<"https://www.aliexpress.com/wholesale?SearchText=">> \o q

\* links that search for "electronics" whatever they are given
generateShopLinksFixed(nameOrQuery) ==
  [shop \in ShopKeys |-> Str(ShopTemplate(shop, <<"electronics">>))]

generateShopLinks(nameOrQuery) ==
  LET q == encodeURIComponent(ToText(Or(nameOrQuery, Str(<<>>))))
  IN [shop \in ShopKeys |-> Str(ShopTemplate(shop, q))]

\* The ten fields every generation prompt asks the provider for.
PromptFields ==
  {"name", "category", "description", "typical_uses", "where_to_buy",
   "key_specs", "datasheet_hint", "project_ideas", "common_mistakes",
   "image_search_query"}

ListFields ==
  {"typical_uses", "where_to_buy", "key_specs", "project_ideas",
   "common_mistakes"}

\* a describer whose fallback is the empty record
fallbackJsonEmpty(queryText, who) == <<>>

\* The hardcoded minimal record of groqDescribeFromText and
\* deepseekDescribeFromText.
fallbackJson(queryText, who) ==
  LET safeName == Or(queryText, Str(<<"Unknown electronics item">>))
  IN [k \in PromptFields |->
        CASE k \in {"name", "image_search_query"} -> safeName
          [] k = "category" -> Str(<<"Other">>)
          [] k = "description" ->
               Str(<<"Text-only fallback entry.", " ", who>>)
          [] k = "datasheet_hint" ->
               Str(safeName.v \o <<" ", "datasheet", " ", "pdf">>)
          [] OTHER -> Opaque("array")]

(***************************************************************************)
(* The handler's state as one record, and the steps on it                  *)
(***************************************************************************)
H ==
  [pc |-> pc, loc |-> loc, baseJson |-> baseJson, lookups |-> lookups,
   ds |-> ds, quotaWarnings |-> quotaWarnings, res |-> res]

Become(h) ==
  /\ pc' = h.pc
  /\ loc' = h.loc
  /\ baseJson' = h.baseJson
  /\ lookups' = h.lookups
  /\ ds' = h.ds
  /\ quotaWarnings' = h.quotaWarnings
  /\ res' = h.res

\* quotaWarnings.push({source, status, message}); the revisions before rev4
\* keep no such list.
Push(r, h, source, status) ==
  IF r = "rev4"
  THEN [h EXCEPT !.quotaWarnings =
          Append(@, [source |-> source, status |-> status])]
  ELSE h

\* res.status(status).json(body): the response is sent and the handler
\* returns.
Respond(h, status, headers, body) ==
  [h EXCEPT !.pc = "done",
            !.res = Append(@, [status |-> status, headers |-> headers,
                               body |-> body])]

\* The body of an error response the handler builds itself.
ErrorBody(r, h, error) ==
  IF r = "rev4"
  THEN [error |-> error,
        meta |-> [quotaWarnings |-> h.quotaWarnings,
                  preferredModel |-> h.loc.backendModel]]
  ELSE [error |-> error]

\* The handler's outer catch: 500.
OuterCatch(r, h) ==
  Respond(h, 500, <<>>,
          IF r = "rev4"
          THEN [error |-> "Internal server error in electro-lookup.",
                meta |-> [quotaWarnings |-> h.quotaWarnings]]
          ELSE IF r = "rev3" THEN [error |-> "Internal server error."]
          ELSE [error |-> "Internal server error in electro-lookup."])

ImageFields == <<"real_image", "usage_image", "pinout_image">>

ServerFields ==
  {"real_image", "usage_image", "pinout_image", "datasheet_url",
   "references", "shop_links"}

IdleLookups == [i \in 1..3 |-> [st |-> "idle", url |-> Null]]

IdleDs == [st |-> "idle", datasheetUrl |-> Null, references |-> <<>>]

\* The query of the i-th image lookup: fetchRealImageFromGoogle,
\* fetchUsageImageFromGoogle, fetchPinoutImageFromGoogle.
ImageQuery(r, i, nameOrQuery) ==
  CASE i = 1 -> nameOrQuery
    [] i = 2 ->
         Str(ToText(nameOrQuery) \o
             (IF r = "rev3"
              THEN <<" ", "application", " ", "circuit", " ", "schematic",
                     " ", "wiring", " ", "diagram">>
              ELSE <<" ", "application", " ", "circuit", " ", "electronics",
                     " ", "example">>))
    [] i = 3 -> Str(ToText(nameOrQuery) \o <<" ", "pinout", " ", "diagram">>)

\* The handler once a base record is there: nameOrQuery, then the image
\* lookups are started (all three at once under rev3's Promise.all).
\* Reading a property of null throws into the outer catch.
AfterGeneration(r, h) ==
  IF h.baseJson = Null THEN OuterCatch(r, h)
  ELSE LET b == IF r = "rev3"
                THEN [_provider |-> Str(<<h.loc.provider>>)] @@ h.baseJson
                ELSE h.baseJson
           nameOrQuery ==
             Or(Get(b, "image_search_query"),
                Or(Get(b, "name"),
                   Or(h.loc.safeQueryText,
                      Str(<<"electronics", " ", "component">>))))
       IN [h EXCEPT
             !.pc = "images",
             !.baseJson = b,
             !.loc = [@ EXCEPT !.nameOrQuery = nameOrQuery],
             !.lookups = [i \in 1..3 |->
                            [st |-> IF r = "rev3" \/ i = 1
                                    THEN "google" ELSE "idle",
                             url |-> Null]]]

allowedModels == {"auto", "gemini", "groq", "deepseek"}

NoLocals ==
  [image |-> Undefined, safeQueryText |-> Str(<<>>), preferredModel |-> "",
   backendModel |-> "", provider |-> "", nameOrQuery |-> Undefined]

\* The handler from the parsed body to its first outbound call: the fields
\* of the body, the 400 and 500 answers, and the choice of the first
\* generation provider.
AfterBody(r, e, h, body) ==
  LET image == Get(body, "image")
      queryText == Get(body, "queryText")
      safeQueryText ==
        Str(trim(IF IsString(queryText) THEN queryText.v ELSE <<>>))
      preferredRaw ==
        IF IsString(Get(body, "preferredModel"))
        THEN toLowerCase(Get(body, "preferredModel").v)
        ELSE <<"auto">>
      preferredModel ==
        IF r # "rev4" THEN ""
        ELSE IF Len(preferredRaw) = 1 /\ preferredRaw[1] \in allowedModels
        THEN preferredRaw[1]
        ELSE "auto"
      h1 == [h EXCEPT !.loc = [@ EXCEPT !.image = image,
                                        !.safeQueryText = safeQueryText,
                                        !.preferredModel = preferredModel,
                                        !.backendModel = preferredModel]]
      badImage ==
        Respond(h1, 400, <<>>,
                ErrorBody(r, h1, "Image must be a base64 data URL"))
  IN
  IF ~Truthy(image) /\ ~Truthy(safeQueryText)
  THEN Respond(h1, 400, <<>>, ErrorBody(r, h1, "Provide an image or queryText."))
  ELSE IF r \in {"rev1", "rev2"}
  THEN IF ~e.GOOGLE_API_KEY
       THEN Respond(h1, 500, <<>>,
                    ErrorBody(r, h1, "Server misconfigured: GOOGLE_API_KEY missing."))
       ELSE IF Truthy(image) /\ extractBase64FromDataUrl(image) = Null
       THEN badImage
       ELSE [h1 EXCEPT !.pc = "gemini"]
  ELSE IF r = "rev3"
  THEN [h1 EXCEPT !.pc = IF e.GOOGLE_API_KEY THEN "gemini" ELSE "callDeepSeek"]
  ELSE IF Truthy(image)
  THEN IF ~e.GOOGLE_API_KEY
       THEN LET h2 == Push(r, h1, "gemini", 500)
            IN Respond(h2, 500, <<>>,
                       ErrorBody(r, h2, "Server misconfigured: GOOGLE_API_KEY missing."))
       ELSE IF extractBase64FromDataUrl(image) = Null
       THEN badImage
       ELSE [h1 EXCEPT !.pc = "gemini"]
  ELSE IF preferredModel = "groq"
  THEN [h1 EXCEPT !.pc = "groqDescribe"]
  ELSE IF preferredModel = "deepseek"
  THEN [h1 EXCEPT !.pc = "deepseekDescribe"]
  ELSE IF ~e.GOOGLE_API_KEY
  THEN [Push(r, h1, "gemini", 500) EXCEPT !.pc = "groqDescribe"]
  ELSE [h1 EXCEPT !.pc = "gemini"]

(***************************************************************************)
(* Provider replies                                                        *)
(*   kind "ok":      fetch resolved with res.ok and a readable JSON body;   *)
(*                   items is data.items / data.images / data.organic,     *)
(*                   content is the parsed choices[0].message.content      *)
(*                   (Undefined: none or empty, Unparsable: not JSON)      *)
(*   kind "status":  fetch resolved with a non-OK status; textOk says      *)
(*                   whether the error body can be read                    *)
(*   kind "badBody": res.ok, and res.json() rejects                        *)
(*   kind "throw":   fetch rejects                                         *)
(*   kind "none":    no call was made (a credential is missing)            *)
(***************************************************************************)
Unparsable == [t |-> "syntaxerror", v |-> <<>>]

Reply(kind, status, textOk, content, items) ==
  [kind |-> kind, status |-> status, textOk |-> textOk, content |-> content,
   items |-> items]

NoCall == Reply("none", 0, FALSE, Undefined, <<>>)
Throws == Reply("throw", 0, FALSE, Undefined, <<>>)
BadBody == Reply("badBody", 200, FALSE, Undefined, <<>>)
Status(s, textOk) == Reply("status", s, textOk, Undefined, <<>>)
OkContent(c) == Reply("ok", 200, TRUE, c, <<>>)
OkItems(items) == Reply("ok", 200, TRUE, Undefined, items)

\* What model.generateContent gives: it throws an error whose text carries
\* the marks msg, or it resolves with a response whose text() parses to
\* json (Unparsable: JSON.parse throws a SyntaxError whose text carries msg).
GeminiThrows(msg) == [kind |-> "throw", msg |-> msg, json |-> Unparsable]
GeminiText(json, msg) == [kind |-> "text", msg |-> msg, json |-> json]

\* googleImageSearch's try block (rev3: the Google part of googleImageSearch)
GoogleImageResult(r, h, reply) ==
  CASE reply.kind = "ok" -> [url |-> FirstItemLink(reply.items), h |-> h]
    [] reply.kind = "status" ->
         [url |-> Null,
          h |-> IF isQuotaStatus(reply.status)
                THEN Push(r, h, "google_cse_images", reply.status) ELSE h]
    [] OTHER -> [url |-> Null, h |-> h]

\* serperImageSearch
SerperImageResult(r, h, reply) ==
  CASE reply.kind = "ok" -> [url |-> FirstImageUrl(r, reply.items), h |-> h]
    [] reply.kind = "status" ->
         [url |-> Null,
          h |-> IF isQuotaStatus(reply.status)
                THEN Push(r, h, "serper_images", reply.status) ELSE h]
    [] OTHER -> [url |-> Null, h |-> h]

\* googleDatasheetAndReferences (rev3: the Google part of
\* fetchDatasheetAndReferences)
GoogleDatasheetResult(r, h, reply) ==
  CASE reply.kind = "ok" ->
         [out |-> ScanItems(r, "cse", reply.items, NoDatasheet), h |-> h]
    [] reply.kind = "status" ->
         [out |-> NoDatasheet,
          h |-> IF isQuotaStatus(reply.status)
                THEN Push(r, h, "google_cse_search", reply.status) ELSE h]
    [] OTHER -> [out |-> NoDatasheet, h |-> h]

\* serperDatasheetSearch
SerperDatasheetResult(r, h, reply) ==
  CASE reply.kind = "ok" ->
         [out |-> ScanItems(r, "serper", reply.items, NoDatasheet), h |-> h]
    [] reply.kind = "status" ->
         [out |-> NoDatasheet,
          h |-> IF isQuotaStatus(reply.status)
                THEN Push(r, h, "serper_search", reply.status) ELSE h]
    [] OTHER -> [out |-> NoDatasheet, h |-> h]

\* a refinement that writes what the provider returned into the base record
RefineResultInPlace(r, h, who, reply) ==
  IF reply.kind = "ok" /\ reply.content \notin {Undefined, Unparsable}
  THEN [out |-> reply.content, h |-> [h EXCEPT !.baseJson = reply.content]]
  ELSE [out |-> h.baseJson, h |-> h]

\* groqRefine / deepseekRefine (who: "groq" or "deepseek").  rev4 awaits
\* res.text() for its log line before it looks at the status; rev1 and rev2
\* do not test res.ok and find no choices in an error body.
RefineResult(r, h, who, reply) ==
  CASE reply.kind = "ok" ->
         [out |-> IF reply.content \in {Undefined, Unparsable}
                  THEN h.baseJson ELSE reply.content,
          h |-> h]
    [] reply.kind = "status" ->
         [out |-> h.baseJson,
          h |-> IF r = "rev4" /\ reply.textOk /\ isQuotaStatus(reply.status)
                THEN Push(r, h, who \o "_refine", reply.status) ELSE h]
    [] OTHER -> [out |-> h.baseJson, h |-> h]

\* groqDescribeFromText / deepseekDescribeFromText (rev4)
DescribeResult(r, h, who, queryText, reply) ==
  LET source == who \o "_text_fallback"
      fallback(status) ==
        [out |-> fallbackJson(queryText, who), h |-> Push(r, h, source, status)]
  IN CASE reply.kind = "ok" ->
            IF reply.content \in {Undefined, Unparsable}
            THEN fallback(500)
            ELSE [out |-> reply.content, h |-> h]
       [] reply.kind = "status" ->
            IF reply.textOk THEN fallback(reply.status) ELSE fallback(500)
       [] OTHER -> fallback(500)

\* callDeepSeek / callGroq (rev3): null unless the content parses to an
\* object, which gets its _provider.
CallResult(who, reply) ==
  IF /\ reply.kind = "ok"
     /\ IsObject(reply.content)
  THEN [_provider |-> Str(<<who>>)] @@ reply.content
  ELSE Null

(***************************************************************************)
(* The handler after each await                                            *)
(***************************************************************************)

\* The name the datasheet search is asked for:
\* baseJson.name || safeQueryText || ""
DatasheetName(h) ==
  Or(Get(h.baseJson, "name"), Or(h.loc.safeQueryText, Str(<<>>)))

\* `${name} datasheet pdf`
DatasheetQuery(h) ==
  ToText(DatasheetName(h)) \o <<" ", "datasheet", " ", "pdf">>

\* finalJson with the refined record written over the server's fields
finalJsonRefinedLast(r, h, refined) ==
  LET b == h.baseJson
      server == [k \in ServerFields |-> Get(b, k)]
      meta == IF r = "rev4"
              THEN [meta |-> [quotaWarnings |-> h.quotaWarnings,
                              preferredModel |-> h.loc.backendModel]]
              ELSE <<>>
  IN Spread(refined) @@ meta @@ server

\* finalJson: the refined record, the server's fields written over it, meta
\* (rev4), and the official_store rule.
finalJson(r, h, refined) ==
  LET b == h.baseJson
      server == [k \in ServerFields |-> Get(b, k)]
      meta == IF r = "rev4"
              THEN [meta |-> [quotaWarnings |-> h.quotaWarnings,
                              preferredModel |-> h.loc.backendModel]]
              ELSE <<>>
      merged == meta @@ server @@ Spread(refined)
  IN IF Truthy(Get(b, "official_store")) /\ ~Truthy(Get(merged, "official_store"))
     THEN [official_store |-> b["official_store"]] @@ merged
     ELSE merged

\* a handler that leaves references out when none was found
AfterDatasheetBare(r, h, out) ==
  LET links == generateShopLinks(Or(Get(h.baseJson, "name"),
                                    Or(h.loc.safeQueryText,
                                       Str(<<"electronics">>))))
      b == [datasheet_url |-> out.datasheetUrl, shop_links |-> links]
             @@ (IF out.references = <<>> THEN <<>>
                 ELSE [references |-> Arr(out.references)])
             @@ h.baseJson
      h1 == [h EXCEPT !.baseJson = b,
                      !.ds = [IdleDs EXCEPT !.st = "done"]]
  IN IF r = "rev3" THEN Respond(h1, 200, <<>>, b)
     ELSE [h1 EXCEPT !.pc = "refine"]

\* fetchDatasheetAndReferences has returned out: datasheet_url, references
\* and shop_links are written into the base record.  rev3 answers 200 with
\* the base record here; the others go on to the refinement.
AfterDatasheet(r, h, out) ==
  LET links == generateShopLinks(Or(Get(h.baseJson, "name"),
                                    Or(h.loc.safeQueryText,
                                       Str(<<"electronics">>))))
      b == [datasheet_url |-> out.datasheetUrl,
            references |-> Arr(out.references),
            shop_links |-> links] @@ h.baseJson
      h1 == [h EXCEPT !.baseJson = b,
                      !.ds = [IdleDs EXCEPT !.st = "done"]]
  IN IF r = "rev3" THEN Respond(h1, 200, <<>>, b)
     ELSE [h1 EXCEPT !.pc = "refine"]

\* The call of fetchDatasheetAndReferences: nothing is searched for an empty
\* name.
StartDatasheet(r, h) ==
  IF ~Truthy(DatasheetName(h)) THEN AfterDatasheet(r, h, NoDatasheet)
  ELSE [h EXCEPT !.pc = "datasheet", !.ds = [IdleDs EXCEPT !.st = "google"]]

\* a handler that goes on as soon as one image lookup has returned
AfterLookupRace(r, h, i, url) ==
  LET h1 == [h EXCEPT !.lookups[i] = [st |-> "done", url |-> url]]
  IN IF ~IsObject(h1.baseJson) THEN OuterCatch(r, h1)
     ELSE StartDatasheet(r,
            [h1 EXCEPT !.baseJson =
               [k \in {ImageFields[i]} |-> url] @@ h1.baseJson])

\* a handler that fills the image fields in the order in which the lookups
\* return
AfterLookupByArrival(r, h, i, url) ==
  LET h1 == [h EXCEPT !.lookups[i] = [st |-> "done", url |-> url]]
      n == Cardinality({j \in 1..3 : h1.lookups[j].st = "done"})
  IN IF ~IsObject(h1.baseJson) THEN OuterCatch(r, h1)
     ELSE LET h2 == [h1 EXCEPT !.baseJson =
                       [k \in {ImageFields[n]} |-> url] @@ h1.baseJson]
          IN IF n = 3 THEN StartDatasheet(r, h2)
             ELSE IF r = "rev3" THEN h2
             ELSE [h2 EXCEPT !.lookups[i + 1] = [st |-> "google", url |-> Null]]

\* The i-th image lookup has returned url.  rev1, rev2 and rev4 assign the
\* field and start the next lookup; assigning a property of a primitive
\* throws in an ES module.  rev3 assigns the three fields when Promise.all
\* resolves.
AfterLookup(r, h, i, url) ==
  LET h1 == [h EXCEPT !.lookups[i] = [st |-> "done", url |-> url]]
  IN IF r = "rev3"
     THEN IF \A j \in 1..3 : h1.lookups[j].st = "done"
          THEN IF ~IsObject(h1.baseJson) THEN OuterCatch(r, h1)
               ELSE StartDatasheet(r,
                      [h1 EXCEPT !.baseJson =
                         [k \in {ImageFields[j] : j \in 1..3} |->
                            h1.lookups[CHOOSE j \in 1..3 : ImageFields[j] = k].url]
                         @@ h1.baseJson])
          ELSE h1
     ELSE IF ~IsObject(h1.baseJson) THEN OuterCatch(r, h1)
     ELSE LET h2 == [h1 EXCEPT !.baseJson =
                       [k \in {ImageFields[i]} |-> url] @@ h1.baseJson]
          IN IF i < 3
             THEN [h2 EXCEPT !.lookups[i + 1] = [st |-> "google", url |-> Null]]
             ELSE StartDatasheet(r, h2)

\* an image lookup that asks Serper whatever Google returned
AfterGoogleImageThenSerper(r, h, i, reply) ==
  LET g == GoogleImageResult(r, h, reply)
  IN [g.h EXCEPT !.lookups[i] = [st |-> "serper", url |-> Null]]

\* a Google image search that is tried a second time before Serper is asked
AfterGoogleImageRetry(r, h, i, reply) ==
  LET g == GoogleImageResult(r, h, reply)
  IN IF Truthy(g.url) THEN AfterLookup(r, g.h, i, g.url)
     ELSE IF h.lookups[i].url = Null
     THEN [g.h EXCEPT !.lookups[i] = [st |-> "google", url |-> Undefined]]
     ELSE [g.h EXCEPT !.lookups[i] = [st |-> "serper", url |-> Null]]

\* googleImageSearch has returned: a link ends the lookup, anything else
\* sends it to serperImageSearch.
AfterGoogleImage(r, h, i, reply) ==
  LET g == GoogleImageResult(r, h, reply)
  IN IF Truthy(g.url) THEN AfterLookup(r, g.h, i, g.url)
     ELSE [g.h EXCEPT !.lookups[i] = [st |-> "serper", url |-> Null]]

\* a Serper image search whose failure is thrown to the handler
AfterSerperImageFatal(r, h, i, reply) ==
  IF reply.kind \in {"ok", "none"}
  THEN AfterLookup(r, h, i, SerperImageResult(r, h, reply).url)
  ELSE OuterCatch(r, h)

AfterSerperImage(r, h, i, reply) ==
  LET g == SerperImageResult(r, h, reply)
  IN AfterLookup(r, g.h, i, g.url)

\* a rev3 lookup that goes on to Serper whenever Google's answer holds no
\* datasheet link
AfterGoogleDatasheetFallsThrough(r, h, reply) ==
  LET g == GoogleDatasheetResult(r, h, reply)
      needsFallback ==
        IF r = "rev3" THEN ~Truthy(g.out.datasheetUrl)
        ELSE ~Truthy(g.out.datasheetUrl) \/ g.out.references = <<>>
  IN IF needsFallback
     THEN [g.h EXCEPT !.ds = [st |-> "serper",
                              datasheetUrl |-> g.out.datasheetUrl,
                              references |-> g.out.references]]
     ELSE AfterDatasheet(r, g.h, g.out)

\* fetchDatasheetAndReferences after the Google search.  rev3 returns what an
\* OK reply holds, results or none, and asks Serper only when Google was not
\* asked or did not answer OK; the others ask Serper whenever the datasheet
\* link or the references are missing.
AfterGoogleDatasheet(r, h, reply) ==
  LET g == GoogleDatasheetResult(r, h, reply)
      needsFallback ==
        IF r = "rev3" THEN reply.kind # "ok"
        ELSE ~Truthy(g.out.datasheetUrl) \/ g.out.references = <<>>
  IN IF needsFallback
     THEN [g.h EXCEPT !.ds = [st |-> "serper",
                              datasheetUrl |-> g.out.datasheetUrl,
                              references |-> g.out.references]]
     ELSE AfterDatasheet(r, g.h, g.out)

\* a Serper search whose result replaces what Google found
AfterSerperDatasheetReplaces(r, h, reply) ==
  AfterDatasheet(r, SerperDatasheetResult(r, h, reply).h,
                 SerperDatasheetResult(r, h, reply).out)

AfterSerperDatasheet(r, h, reply) ==
  LET g == SerperDatasheetResult(r, h, reply)
      url == IF ~Truthy(h.ds.datasheetUrl) /\ Truthy(g.out.datasheetUrl)
             THEN g.out.datasheetUrl ELSE h.ds.datasheetUrl
      refs == IF h.ds.references = <<>> THEN g.out.references
              ELSE h.ds.references
  IN AfterDatasheet(r, g.h,
       IF r = "rev3" THEN g.out
       ELSE [datasheetUrl |-> url, references |-> refs])

\* a handler that has Groq refine every record
RefinerGroq(r, h) == "groq"

\* Which provider refines the record: "groq", "deepseek" or "" (none).
Refiner(r, h) ==
  IF r # "rev4" THEN "groq"
  ELSE CASE h.loc.backendModel = "deepseek" -> "deepseek"
         [] h.loc.backendModel \in {"groq", "auto"} -> "groq"
         [] OTHER -> ""

\* The refinement has returned: finalJson is sent with 200.
AfterRefine(r, h, who, reply) ==
  LET g == RefineResult(r, h, who, reply)
  IN Respond(g.h, 200, <<>>, finalJson(r, g.h, g.out))

\* a handler whose image mode, too, falls back to the Groq describer when
\* Gemini is out of quota
AfterGeminiImageFallback(r, h, o) ==
  LET parsed == o.kind = "text" /\ o.json # Unparsable
      imageMode == Truthy(h.loc.image)
  IN CASE r = "rev3" ->
            [h EXCEPT !.baseJson = Null, !.pc = "callDeepSeek"]
       [] r \in {"rev1", "rev2"} ->
            IF o.kind = "throw" THEN OuterCatch(r, h)
            ELSE IF ~parsed
            THEN Respond(h, 500, <<>>,
                   ErrorBody(r, h, "Failed to parse Gemini response as JSON."))
            ELSE AfterGeneration(r, [h EXCEPT !.baseJson = o.json])
       [] r = "rev4" /\ parsed ->
            AfterGeneration(r,
              [h EXCEPT !.baseJson = o.json,
                        !.loc.backendModel =
                          IF imageMode THEN @
                          ELSE IF h.loc.preferredModel = "gemini"
                          THEN "gemini" ELSE "auto"])
       [] r = "rev4" /\ ~parsed /\ isQuotaError(o.msg) ->
            [Push(r, h, "gemini", 429) EXCEPT !.pc = "groqDescribe"]
       [] OTHER ->
            Respond(h, 500, <<>>,
              ErrorBody(r, h,
                IF imageMode
                THEN "Failed to call Gemini generateContent for image."
                ELSE "Failed to call Gemini generateContent for text."))

\* a handler whose text mode falls back to the Groq describer after every
\* Gemini failure
AfterGeminiLenient(r, h, o) ==
  LET parsed == o.kind = "text" /\ o.json # Unparsable
      imageMode == Truthy(h.loc.image)
  IN CASE r = "rev3" ->
            [h EXCEPT !.baseJson = Null, !.pc = "callDeepSeek"]
       [] r \in {"rev1", "rev2"} ->
            IF o.kind = "throw" THEN OuterCatch(r, h)
            ELSE IF ~parsed
            THEN Respond(h, 500, <<>>,
                   ErrorBody(r, h, "Failed to parse Gemini response as JSON."))
            ELSE AfterGeneration(r, [h EXCEPT !.baseJson = o.json])
       [] r = "rev4" /\ parsed ->
            AfterGeneration(r,
              [h EXCEPT !.baseJson = o.json,
                        !.loc.backendModel =
                          IF imageMode THEN @
                          ELSE IF h.loc.preferredModel = "gemini"
                          THEN "gemini" ELSE "auto"])
       [] r = "rev4" /\ ~parsed /\ (isQuotaError(o.msg) \/ ~imageMode) ->
            LET h1 == Push(r, h, "gemini", 429)
            IN IF imageMode
               THEN Respond(h1, 429, <<>>,
                      ErrorBody(r, h1, "Gemini vision quota exceeded."))
               ELSE [h1 EXCEPT !.pc = "groqDescribe"]
       [] OTHER ->
            Respond(h, 500, <<>>,
              ErrorBody(r, h, "Failed to call Gemini generateContent for image."))

\* model.generateContent has settled with outcome o.
AfterGemini(r, h, o) ==
  LET parsed == o.kind = "text" /\ o.json # Unparsable
      imageMode == Truthy(h.loc.image)
  IN CASE r = "rev3" ->
            \* response.text is read without being called: raw.replace
            \* throws, and the catch leaves no record
            [h EXCEPT !.baseJson = Null, !.pc = "callDeepSeek"]
       [] r \in {"rev1", "rev2"} ->
            IF o.kind = "throw" THEN OuterCatch(r, h)
            ELSE IF ~parsed
            THEN Respond(h, 500, <<>>,
                   ErrorBody(r, h, "Failed to parse Gemini response as JSON."))
            ELSE AfterGeneration(r, [h EXCEPT !.baseJson = o.json])
       [] r = "rev4" /\ parsed ->
            AfterGeneration(r,
              [h EXCEPT !.baseJson = o.json,
                        !.loc.backendModel =
                          IF imageMode THEN @
                          ELSE IF h.loc.preferredModel = "gemini"
                          THEN "gemini" ELSE "auto"])
       [] r = "rev4" /\ ~parsed /\ isQuotaError(o.msg) ->
            LET h1 == Push(r, h, "gemini", 429)
            IN IF imageMode
               THEN Respond(h1, 429, <<>>,
                      ErrorBody(r, h1, "Gemini vision quota exceeded."))
               ELSE [h1 EXCEPT !.pc = "groqDescribe"]
       [] OTHER ->
            Respond(h, 500, <<>>,
              ErrorBody(r, h,
                IF imageMode
                THEN "Failed to call Gemini generateContent for image."
                ELSE "Failed to call Gemini generateContent for text."))

\* a handler that leaves backendModel as requested after a describer ran
AfterDescribeKeepsModel(r, h, who, reply) ==
  LET g == DescribeResult(r, h, who, h.loc.safeQueryText, reply)
  IN AfterGeneration(r, [g.h EXCEPT !.baseJson = g.out])

\* groqDescribeFromText / deepseekDescribeFromText has returned (rev4).
AfterDescribe(r, h, who, reply) ==
  LET g == DescribeResult(r, h, who, h.loc.safeQueryText, reply)
  IN AfterGeneration(r, [g.h EXCEPT !.baseJson = g.out,
                                    !.loc.backendModel = who])

\* getFallbackJson (rev3): DeepSeek, then Groq, then the 500.
AfterCall(r, h, who, reply) ==
  LET out == CallResult(who, reply)
  IN IF out # Null
     THEN AfterGeneration(r, [h EXCEPT !.baseJson = out, !.loc.provider = who])
     ELSE IF who = "deepseek" THEN [h EXCEPT !.pc = "callGroq"]
     ELSE Respond(h, 500, <<>>,
            ErrorBody(r, h, "All AI providers failed to return valid JSON."))

(***************************************************************************)
(* The request stream: readJsonBody                                        *)
(***************************************************************************)
MAX_BYTES == 8 * 1024 * 1024

\* The most "data" events one request body is delivered in.
MaxChunks == 2

\* A request without a body, and a body that is not JSON.
NoBody == Opaque("nobody")
Garbage == Unparsable

\* readJsonBody's closure before the first event: left is what the client
\* has still to send, bytes and hasData are the closure's bytes and data,
\* promise is the state of the promise readJsonBody returned.
NewStream(request) ==
  [open |-> TRUE, left |-> request.length, events |-> 0, bytes |-> 0,
   hasData |-> FALSE, promise |-> "pending", destroyed |-> FALSE]

ClosedStream ==
  [open |-> FALSE, left |-> 0, events |-> 0, bytes |-> 0, hasData |-> FALSE,
   promise |-> "pending", destroyed |-> FALSE]

\* The sizes a chunk that is not the last one of the body can have.
ChunkSizes == {1, MAX_BYTES, MAX_BYTES + 1}

\* The chunks the next "data" event can carry: all that is left, or a part
\* of it while the body may still come in more events.
NextChunks ==
  {stream.left} \cup
    (IF stream.events + 1 < MaxChunks
     THEN {n \in ChunkSizes : n < stream.left} ELSE {})

\* resolve and reject settle the promise once: the handler goes on from its
\* await only if the promise was pending.
Settle(h) == IF stream.promise = "pending" THEN h ELSE H

\* The listeners are attached once readJsonBody is called and stay attached;
\* rev2 leaves the body to the framework.
Listening ==
  /\ rev # "rev2"
  /\ req.method = "POST"
  /\ pc # "entry"
  /\ stream.open

\* The "end" listener's resolve(data ? JSON.parse(data) : {}); rev3 parses
\* only a body declared as application/json.  Garbage makes JSON.parse throw.
ParsesBody(r) ==
  /\ stream.hasData
  /\ r = "rev3" => req.contentType = "application/json"

Const == UNCHANGED <<rev, env, net, req, peer>>

Quiet == UNCHANGED <<calls, hist>>

Call(to, purpose, q) ==
  calls' = calls (+) SetToBag({[to |-> to, purpose |-> purpose, q |-> q]})

\* The statuses that tell of an exhausted quota or a billing problem.
QuotaStatuses == {402, 403, 429}

\* No call of model.generateContent has settled.
NoGemini == [kind |-> "none", msg |-> {}, json |-> Unparsable]

\* History: some provider answered OK; the quota and billing statuses that
\* were answered, by source; the searches that returned results; what
\* model.generateContent gave; the sources that answered OK; the results
\* each search call was answered with (none when it failed).
Noted(source, reply) ==
  [ok |-> hist.ok \/ reply.kind \notin {"throw", "status"},
   gemini |-> hist.gemini,
   quota |-> hist.quota \cup
     (IF reply.kind = "status" /\ reply.status \in QuotaStatuses
      THEN {[source |-> source, status |-> reply.status]} ELSE {}),
   found |-> hist.found \cup
     (IF reply.kind = "ok" /\ reply.items # <<>> THEN {source} ELSE {}),
   answered |-> hist.answered \cup
     (IF reply.kind = "ok" THEN {source} ELSE {}),
   results |-> hist.results]

Note(source, reply) == hist' = Noted(source, reply)

NoteSearch(source, to, purpose, q, reply) ==
  hist' = [Noted(source, reply) EXCEPT !.results = @ \cup
             {[to |-> to, purpose |-> purpose, q |-> q,
               items |-> IF reply.kind = "ok" THEN reply.items ELSE <<>>]}]

NoteGemini(o) ==
  hist' = [ok |-> hist.ok \/ o.kind = "text",
           gemini |-> o,
           quota |-> hist.quota \cup
             (IF o.kind = "throw" /\
                 o.msg \cap {"429", "You exceeded your current quota",
                             "Quota exceeded for metric"} # {}
              THEN {[source |-> "gemini", status |-> 429]} ELSE {}),
           found |-> hist.found,
           answered |-> hist.answered,
           results |-> hist.results]

\* a handler that hands every image it is given to Gemini
GeminiPartsAnyImage(r, h) ==
  IF Truthy(h.loc.image) THEN <<"inlineData">> ELSE <<>>

\* The parts of the generateContent call besides the prompt: the image as
\* inlineData when the request has one that is a base64 data URL.
GeminiParts(r, h) ==
  IF Truthy(h.loc.image) /\ extractBase64FromDataUrl(h.loc.image) # Null
  THEN <<"inlineData">> ELSE <<>>

(***************************************************************************)
(* Actions                                                                 *)
(***************************************************************************)

\* Everything one invocation of handler owns: its request, the replies its
\* calls get, and the locals of its closure.
Own ==
  [req |-> req, net |-> net, pc |-> pc, stream |-> stream, loc |-> loc,
   baseJson |-> baseJson, lookups |-> lookups, ds |-> ds,
   quotaWarnings |-> quotaWarnings, res |-> res, calls |-> calls,
   hist |-> hist]

NoPeer == [pc |-> "none"]

\* The continuation of the invocation o runs next.
Resume(o) ==
  /\ req' = o.req
  /\ net' = o.net
  /\ pc' = o.pc
  /\ stream' = o.stream
  /\ loc' = o.loc
  /\ baseJson' = o.baseJson
  /\ lookups' = o.lookups
  /\ ds' = o.ds
  /\ quotaWarnings' = o.quotaWarnings
  /\ res' = o.res
  /\ calls' = o.calls
  /\ hist' = o.hist

\* handler without its method check
handlerAnyMethod ==
  /\ pc = "entry"
  /\ IF rev = "rev2"
     THEN Become(AfterBody(rev, env, H,
                   Or(IF req.body = NoBody THEN Undefined ELSE req.body, <<>>)))
     ELSE Become([H EXCEPT !.pc = "readJsonBody"])
  /\ UNCHANGED stream /\ Quiet /\ Const

\* handler(req, res) up to its first await
handler ==
  /\ pc = "entry"
  /\ IF req.method # "POST"
     THEN Become(Respond(H, 405, [Allow |-> "POST"],
                         [error |-> "Method not allowed"]))
     ELSE IF rev = "rev2"
     THEN Become(AfterBody(rev, env, H,
                   Or(IF req.body = NoBody THEN Undefined ELSE req.body, <<>>)))
     ELSE Become([H EXCEPT !.pc = "readJsonBody"])
  /\ UNCHANGED stream /\ Quiet /\ Const

\* a "data" listener that throws the size error to the handler whenever the
\* total is over the limit, whether the promise is settled or not
OnDataAnswersAgain ==
  /\ Listening
  /\ stream.left > 0
  /\ \E n \in NextChunks :
       LET seen == [stream EXCEPT !.left = @ - n, !.events = @ + 1,
                                  !.bytes = @ + n]
       IN IF rev \in {"rev3", "rev4"} /\ seen.bytes > MAX_BYTES
          THEN /\ stream' = [seen EXCEPT !.promise = "rejected",
                                         !.destroyed = TRUE]
               /\ Become(OuterCatch(rev, [H EXCEPT !.pc = "readJsonBody"]))
          ELSE /\ stream' = [seen EXCEPT !.hasData = TRUE]
               /\ Become(H)
  /\ Quiet /\ Const

\* req.on("data"): a chunk of n bytes arrives
OnData ==
  /\ Listening
  /\ stream.left > 0
  /\ \E n \in NextChunks :
       LET seen == [stream EXCEPT !.left = @ - n, !.events = @ + 1,
                                  !.bytes = @ + n]
       IN IF rev \in {"rev3", "rev4"} /\ seen.bytes > MAX_BYTES
          THEN \* reject(new Error(...)); req.destroy(); return
               /\ stream' = [seen EXCEPT !.promise = "rejected",
                                         !.destroyed = TRUE]
               /\ Become(Settle(OuterCatch(rev, H)))
          ELSE /\ stream' = [seen EXCEPT !.hasData = TRUE]
               /\ Become(H)
  /\ Quiet /\ Const

\* the "end" listener before a handler that finds GOOGLE_API_KEY set
OnEndWithKey ==
  /\ Listening
  /\ stream.left = 0
  /\ IF stream.promise # "pending"
     THEN stream' = [stream EXCEPT !.open = FALSE] /\ Become(H)
     ELSE /\ stream' = [ClosedStream EXCEPT !.promise = "resolved"]
          /\ Become(AfterBody(rev, [env EXCEPT !.GOOGLE_API_KEY = TRUE], H,
                              IF ParsesBody(rev) /\ req.body # Garbage
                              THEN req.body ELSE <<>>))
  /\ Quiet /\ Const

\* req.on("end"): the promise settles and the handler goes on; after the
\* promise was rejected for the size of the body, resolve and reject do
\* nothing.  No event follows "end".
OnEnd ==
  /\ Listening
  /\ stream.left = 0
  /\ IF stream.promise # "pending"
     THEN stream' = [stream EXCEPT !.open = FALSE] /\ Become(H)
     ELSE IF ParsesBody(rev) /\ req.body = Garbage
     THEN /\ stream' = [ClosedStream EXCEPT !.promise = "rejected"]
          /\ Become(OuterCatch(rev, H))
     ELSE /\ stream' = [ClosedStream EXCEPT !.promise = "resolved"]
          /\ Become(AfterBody(rev, env, H,
                              IF ParsesBody(rev) THEN req.body ELSE <<>>))
  /\ Quiet /\ Const

\* req.on("error"): the connection breaks while the body is read, or the
\* destroyed stream reports its end; reject does nothing to a promise that
\* is settled.  No event follows "error".
OnError ==
  /\ Listening
  /\ IF stream.promise # "pending"
     THEN stream' = [stream EXCEPT !.open = FALSE] /\ Become(H)
     ELSE /\ stream' = [ClosedStream EXCEPT !.promise = "rejected"]
          /\ Become(OuterCatch(rev, H))
  /\ Quiet /\ Const

\* await model.generateContent(...)
geminiGenerateContent ==
  /\ pc = "gemini"
  /\ \E o \in net.gemini :
       /\ Become(AfterGemini(rev, H, o))
       /\ Call("gemini", "generate", GeminiParts(rev, H))
       /\ NoteGemini(o)
  /\ UNCHANGED stream /\ Const

\* await groqDescribeFromText(safeQueryText, quotaWarnings)
groqDescribeFromText ==
  /\ pc = "groqDescribe"
  /\ IF env.GROQ_API_KEY
     THEN \E reply \in net.groq :
            /\ Become(AfterDescribe(rev, H, "groq", reply))
            /\ Call("groq", "describe", <<>>)
            /\ Note("groq_text_fallback", reply)
     ELSE Become(AfterDescribe(rev, H, "groq", NoCall)) /\ Quiet
  /\ UNCHANGED stream /\ Const

\* await deepseekDescribeFromText(safeQueryText, quotaWarnings)
deepseekDescribeFromText ==
  /\ pc = "deepseekDescribe"
  /\ IF env.DEEPSEEK_API_KEY
     THEN \E reply \in net.deepseek :
            /\ Become(AfterDescribe(rev, H, "deepseek", reply))
            /\ Call("deepseek", "describe", <<>>)
            /\ Note("deepseek_text_fallback", reply)
     ELSE Become(AfterDescribe(rev, H, "deepseek", NoCall)) /\ Quiet
  /\ UNCHANGED stream /\ Const

\* rev3: await callDeepSeek(hasImage, safeQueryText)
callDeepSeek ==
  /\ pc = "callDeepSeek"
  /\ IF env.DEEPSEEK_API_KEY
     THEN \E reply \in net.deepseek :
            /\ Become(AfterCall(rev, H, "deepseek", reply))
            /\ Call("deepseek", "describe", <<>>)
            /\ Note("deepseek", reply)
     ELSE Become(AfterCall(rev, H, "deepseek", NoCall)) /\ Quiet
  /\ UNCHANGED stream /\ Const

\* rev3: await callGroq(hasImage, safeQueryText)
callGroq ==
  /\ pc = "callGroq"
  /\ IF env.GROQ_API_KEY
     THEN \E reply \in net.groq :
            /\ Become(AfterCall(rev, H, "groq", reply))
            /\ Call("groq", "describe", <<>>)
            /\ Note("groq", reply)
     ELSE Become(AfterCall(rev, H, "groq", NoCall)) /\ Quiet
  /\ UNCHANGED stream /\ Const

\* The Google image search of the i-th lookup
googleImageSearch(i) ==
  /\ pc = "images"
  /\ lookups[i].st = "google"
  /\ LET query == ImageQuery(rev, i, loc.nameOrQuery)
     IN IF env.CSE_API_KEY /\ env.CSE_CX /\ Truthy(query)
        THEN \E reply \in net.cse :
               /\ Become(AfterGoogleImage(rev, H, i, reply))
               /\ Call("google", "image", ToText(query))
               /\ NoteSearch("google_cse_images", "google", "image",
                             ToText(query), reply)
        ELSE Become(AfterGoogleImage(rev, H, i, NoCall)) /\ Quiet
  /\ UNCHANGED stream /\ Const

\* The Serper image search of the i-th lookup
serperImageSearch(i) ==
  /\ pc = "images"
  /\ lookups[i].st = "serper"
  /\ LET query == ImageQuery(rev, i, loc.nameOrQuery)
     IN IF env.SERPER_API_KEY /\ Truthy(query)
        THEN \E reply \in net.serper :
               /\ Become(AfterSerperImage(rev, H, i, reply))
               /\ Call("serper", "image", ToText(query))
               /\ NoteSearch("serper_images", "serper", "image",
                             ToText(query), reply)
        ELSE Become(AfterSerperImage(rev, H, i, NoCall)) /\ Quiet
  /\ UNCHANGED stream /\ Const

\* The Google search for the datasheet and the references
googleDatasheetAndReferences ==
  /\ pc = "datasheet"
  /\ ds.st = "google"
  /\ IF env.CSE_API_KEY /\ env.CSE_CX
     THEN \E reply \in net.cse :
            /\ Become(AfterGoogleDatasheet(rev, H, reply))
            /\ Call("google", "datasheet", DatasheetQuery(H))
            /\ NoteSearch("google_cse_search", "google", "datasheet",
                          DatasheetQuery(H), reply)
     ELSE Become(AfterGoogleDatasheet(rev, H, NoCall)) /\ Quiet
  /\ UNCHANGED stream /\ Const

\* The Serper search for the datasheet and the references
serperDatasheetSearch ==
  /\ pc = "datasheet"
  /\ ds.st = "serper"
  /\ IF env.SERPER_API_KEY
     THEN \E reply \in net.serper :
            /\ Become(AfterSerperDatasheet(rev, H, reply))
            /\ Call("serper", "datasheet", DatasheetQuery(H))
            /\ NoteSearch("serper_search", "serper", "datasheet",
                          DatasheetQuery(H), reply)
     ELSE Become(AfterSerperDatasheet(rev, H, NoCall)) /\ Quiet
  /\ UNCHANGED stream /\ Const

\* groqRefine / deepseekRefine, finalJson and the 200
refine ==
  /\ pc = "refine"
  /\ LET who == Refiner(rev, H)
         hasKey == IF who = "groq" THEN env.GROQ_API_KEY
                   ELSE who = "deepseek" /\ env.DEEPSEEK_API_KEY
     IN IF hasKey
        THEN \E reply \in net[who] :
               /\ Become(AfterRefine(rev, H, who, reply))
               /\ Call(who, "refine", <<>>)
               /\ Note(who \o "_refine", reply)
        ELSE Become(AfterRefine(rev, H, who, NoCall)) /\ Quiet
  /\ UNCHANGED stream /\ Const

\* an event loop over handlers that push to one module-level quotaWarnings
YieldSharedWarnings ==
  /\ peer # NoPeer
  /\ peer' = Own
  /\ Resume([peer EXCEPT !.quotaWarnings = quotaWarnings])
  /\ UNCHANGED <<rev, env>>

\* The handler is suspended at an await (or has returned) and the event loop
\* turns to the other request.  Each invocation has its own quotaWarnings
\* and locals; process.env is shared.
Yield ==
  /\ peer # NoPeer
  /\ peer' = Own
  /\ Resume(peer)
  /\ UNCHANGED <<rev, env>>

Next ==
  \/ handler
  \/ OnData
  \/ OnEnd
  \/ OnError
  \/ geminiGenerateContent
  \/ groqDescribeFromText
  \/ deepseekDescribeFromText
  \/ callDeepSeek
  \/ callGroq
  \/ \E i \in 1..3 : googleImageSearch(i)
  \/ \E i \in 1..3 : serperImageSearch(i)
  \/ googleDatasheetAndReferences
  \/ serperDatasheetSearch
  \/ refine

(***************************************************************************)
(* Requests, environments and provider replies the model is run on         *)
(***************************************************************************)
Field(k, v) == IF v = Undefined THEN <<>> ELSE [x \in {k} |-> v]

\* The JSON body {image, queryText, preferredModel}; Undefined leaves the
\* key out.
Body(image, queryText, preferredModel) ==
  Field("image", image) @@ Field("queryText", queryText)
    @@ Field("preferredModel", preferredModel)

Request(method, contentType, length, body) ==
  [method |-> method, contentType |-> contentType, length |-> length,
   body |-> body]

PngDataUrl == Str(<<"data:", "image/png", ";base64,", "iVBORw0KGgo=">>)

Images ==
  {Undefined, Str(<<>>), PngDataUrl, Str(<<"https://host/photo.png">>),
   Str(<<"data:", "image/png", ";base64,", "iVBOR", "\n", "w0KGgo=">>),
   Num(<<"1">>)}

QueryTexts ==
  {Undefined, Null, Num(<<"555">>), Str(<<>>), Str(<<" ", "\n">>),
   Str(<<" ", "NE555", " ">>), Str(<<"R", "&", "D", " ", "kit">>)}

PreferredModels ==
  {Undefined, Str(<<"auto">>), Str(<<"GEMINI">>), Str(<<"Groq">>),
   Str(<<"deepseek">>), Str(<<"gpt-4">>), Str(<<"groq", " ">>), Num(<<"1">>)}

Env(google, groq, deepseek, cseKey, cseCx, serper) ==
  [GOOGLE_API_KEY |-> google, GROQ_API_KEY |-> groq,
   DEEPSEEK_API_KEY |-> deepseek, CSE_API_KEY |-> cseKey, CSE_CX |-> cseCx,
   SERPER_API_KEY |-> serper]

AllKeys == Env(TRUE, TRUE, TRUE, TRUE, TRUE, TRUE)
NoGoogleKey == Env(FALSE, TRUE, TRUE, TRUE, TRUE, TRUE)
NoKeys == Env(FALSE, FALSE, FALSE, FALSE, FALSE, FALSE)
OnlyGoogleKey == Env(TRUE, FALSE, FALSE, FALSE, FALSE, FALSE)
NoCseCx == Env(TRUE, TRUE, TRUE, TRUE, FALSE, TRUE)

\* A record with the ten fields of the prompt.
Record(name, query) ==
  [k \in PromptFields |->
     CASE k = "name" -> name
       [] k = "image_search_query" -> query
       [] k \in ListFields -> Opaque("array")
       [] OTHER -> Str(<<"text of ", k>>)]

Regulator == Record(Str(<<"LM7805">>), Str(<<"LM7805", " ", "regulator">>))
Unnamed == Record(Str(<<>>), Str(<<>>))
Renamed == Record(Str(<<"LM7805", " ", "voltage", " ", "regulator">>),
                  Str(<<"7805">>))

\* A record that names the server's own fields.
Tampered ==
  [name |-> Str(<<"R", "&", "D", " ", "board">>),
   real_image |-> Str(<<"https://evil/x.png">>),
   datasheet_url |-> Str(<<"https://evil/x.pdf">>),
   references |-> Str(<<"none">>),
   shop_links |-> [shopee |-> Str(<<"https://evil/shop">>)],
   official_store |-> Str(<<"https://store">>),
   meta |-> Str(<<"none">>)]

PdfItem ==
  [title |-> Str(<<"LM7805 datasheet">>),
   link |-> Str(<<"https://host/", "LM7805", ".pdf">>),
   snippet |-> Str(<<"3-terminal regulator">>),
   imageUrl |-> Str(<<"https://host/", "LM7805", ".png">>)]
PageItem ==
  [title |-> Str(<<"LM7805 page">>),
   link |-> Str(<<"https://host/", "Datasheet", "/LM7805">>)]
PlainItem ==
  [title |-> Str(<<"Forum thread">>), link |-> Str(<<"https://forum/1">>)]
UrlItem ==
  [url |-> Str(<<"https://host/", "LM7805", ".pdf">>),
   thumbnailUrl |-> Str(<<"https://thumb/1">>),
   description |-> Str(<<"regulator">>)]
BareItem == [title |-> Str(<<"untitled">>)]

Start(revs, envs, nets, reqs) ==
  /\ rev \in revs
  /\ env \in envs
  /\ net \in nets
  /\ req \in reqs
  \* a body has its bytes; rev2's framework hands over only what it parsed
  /\ (req.body = NoBody) = (req.length = 0)
  /\ rev = "rev2" => req.body # Garbage /\ req.length <= MAX_BYTES
  /\ pc = "entry"
  /\ stream = NewStream(req)
  /\ loc = NoLocals
  /\ baseJson = Null
  /\ lookups = IdleLookups
  /\ ds = IdleDs
  /\ quotaWarnings = <<>>
  /\ res = <<>>
  /\ calls = EmptyBag
  /\ hist = [ok |-> FALSE, quota |-> {}, found |-> {}, gemini |-> NoGemini,
             answered |-> {}, results |-> {}]
  /\ peer = NoPeer

Net(gemini, groq, deepseek, cse, serper) ==
  [gemini |-> gemini, groq |-> groq, deepseek |-> deepseek, cse |-> cse,
   serper |-> serper]

Methods == {"POST", "GET", "PUT", "DELETE", "OPTIONS"}

\* --- Requests of every shape, against one network -------------------------
Requests ==
  {Request("POST", "application/json", 64, Body(i, q, p)) :
     i \in Images, q \in QueryTexts, p \in PreferredModels}
  \cup
  {Request(m, c, n, b) :
     m \in Methods, c \in {"application/json", "text/plain"},
     n \in {0, 64, MAX_BYTES, MAX_BYTES + 1, MAX_BYTES + 2},
     b \in {NoBody, Garbage, <<>>, Null,
            Body(Undefined, Str(<<"NE555">>), Undefined),
            Body(Undefined, Undefined, Str(<<"groq">>))}}

NetMixed ==
  Net({GeminiText(Regulator, {}), GeminiThrows({})},
      {OkContent(Renamed), Status(429, TRUE)},
      {Throws},
      {Status(403, TRUE), OkItems(<<PlainItem>>)},
      {OkItems(<<PdfItem>>)})

Init == Start(Revisions, {AllKeys, NoGoogleKey, NoCseCx}, {NetMixed}, Requests)

Spec == Init /\ [][Next]_vars

\* --- A few valid requests, against networks that fail in many ways --------
ValidRequests ==
  {Request("POST", "application/json", 64, Body(i, q, p)) :
     i \in {Undefined, PngDataUrl},
     q \in {Undefined, Str(<<" ", "NE555", " ">>)},
     p \in {Undefined, Str(<<"GEMINI">>), Str(<<"Groq">>), Str(<<"deepseek">>)}}
  \ {Request("POST", "application/json", 64, Body(Undefined, Undefined, p)) :
       p \in PreferredModels}

\* Every provider is down or out of quota.
Failures == {Throws, Status(429, TRUE), Status(500, TRUE)}
NetDown ==
  Net({GeminiThrows({}), GeminiThrows({"429"})}, Failures, Failures, Failures,
      Failures)

\* Billing statuses, and error bodies that cannot be read.
NetBilling ==
  Net({GeminiThrows({"Quota exceeded for metric"}), GeminiText(Unparsable, {}),
       GeminiText(Unparsable, {"429"})},
      {Status(402, TRUE), Status(429, FALSE)},
      {Status(403, TRUE), Status(402, FALSE)},
      {Status(403, TRUE), Status(404, TRUE)},
      {Status(402, TRUE), BadBody})

\* Generation works, the searches find nothing.
NetNoResults ==
  Net({GeminiText(Regulator, {}), GeminiText(Unnamed, {})},
      {OkContent(Renamed), Status(403, TRUE)},
      {OkContent(Regulator), Throws},
      {OkItems(<<>>), Status(429, TRUE), OkItems(<<BareItem>>)},
      {OkItems(<<>>), Throws})

InitProviders ==
  Start(Revisions, {AllKeys, NoGoogleKey, OnlyGoogleKey, NoKeys, NoCseCx},
        {NetDown, NetBilling, NetNoResults}, ValidRequests)

SpecProviders == InitProviders /\ [][Next]_vars

\* --- Records of every shape, against searches that find something ---------
RecordRequests ==
  {Request("POST", "application/json", 64, Body(i, q, p)) :
     i \in {Undefined, PngDataUrl},
     q \in {Str(<<"R", "&", "D", " ", "kit">>)},
     p \in {Undefined, Str(<<"GEMINI">>), Str(<<"Groq">>), Str(<<"deepseek">>)}}
  \cup
  {Request("POST", "application/json", 64, Body(PngDataUrl, Undefined, Undefined))}

BaseRecords == {Regulator, Unnamed, Tampered, <<>>, Null, Num(<<"42">>)}

Refinements ==
  {OkContent(Renamed), OkContent(Tampered), OkContent(<<>>), OkContent(Null),
   OkContent(Undefined), OkContent(Unparsable), Throws}

NetRecords ==
  {Net({GeminiText(b, {})}, chat, chat, {found}, {OkItems(<<UrlItem, PdfItem>>)}) :
     b \in BaseRecords,
     chat \in {Refinements, {OkContent(b2) : b2 \in BaseRecords}},
     found \in {OkItems(<<PdfItem>>), OkItems(<<PlainItem, PageItem>>),
                OkItems(<<PlainItem>>), Throws}}

InitRecords == Start(Revisions, {AllKeys, NoGoogleKey}, NetRecords, RecordRequests)

SpecRecords == InitRecords /\ [][Next]_vars

(***************************************************************************)
(* Properties                                                              *)
(***************************************************************************)
Responded == pc = "done"

\* The one response of a finished request.
Response == res[1]

\* The handler answers a request once.
AtMostOneResponse == Len(res) <= 1 /\ (Responded <=> Len(res) = 1)

\* C1: a request whose method is not POST is answered 405 with the header
\* Allow: POST; its body is never read and no provider is called.
C1_MethodNotAllowed ==
  req.method # "POST" =>
    /\ pc \in {"entry", "done"}
    /\ stream = NewStream(req)
    /\ calls = EmptyBag
    /\ Responded =>
         res = <<[status |-> 405, headers |-> [Allow |-> "POST"],
                  body |-> [error |-> "Method not allowed"]]>>

\* A DELETE request with a body has been answered.
C1_Witness ==
  /\ req.method = "DELETE"
  /\ req.length > 0
  /\ Responded
  /\ Response.status = 405

\* The body as the client sent it holds neither an image nor a queryText
\* that is a string with something other than white space in it.
LacksInput(b) ==
  /\ ~Truthy(Get(b, "image"))
  /\ \/ ~IsString(Get(b, "queryText"))
     \/ \A j \in 1..Len(Get(b, "queryText").v) : IsSpace(Get(b, "queryText").v[j])

\* readJsonBody resolved (rev2: the framework parsed the body).
BodyRead == rev = "rev2" \/ stream.promise = "resolved"

\* C2 as stated: a POST whose body has neither an image nor a queryText is
\* always answered 400, and no provider is called.
C2_AlwaysBadRequest ==
  (req.method = "POST" /\ req.body # Garbage /\ LacksInput(req.body)) =>
    /\ calls = EmptyBag
    /\ Responded => Response.status = 400

\* C2, amended: a POST whose body has been read and parsed and has neither an
\* image nor a queryText is answered 400, whatever preferredModel, other
\* fields or credentials, and no provider is called.
C2_BadRequest ==
  (req.method = "POST" /\ req.body # Garbage /\ LacksInput(req.body)) =>
    /\ calls = EmptyBag
    /\ (Responded /\ BodyRead) => Response.status = 400

\* A white-space queryText with a preferredModel has been answered 400.
C2_Witness ==
  /\ req.method = "POST"
  /\ Get(req.body, "queryText") = Str(<<" ", "\n">>)
  /\ Get(req.body, "preferredModel") = Str(<<"Groq">>)
  /\ ~Truthy(Get(req.body, "image"))
  /\ Responded
  /\ BodyRead
  /\ Response.status = 400

\* The request carries an image or a queryText, and an image it carries is
\* a base64 data URL.
ValidInput ==
  /\ req.method = "POST"
  /\ req.body # Garbage
  /\ ~LacksInput(req.body)
  /\ Truthy(Get(req.body, "image")) =>
       extractBase64FromDataUrl(Get(req.body, "image")) # Null

\* Providers were called, and no call was answered OK.
AllCallsFailed == calls # EmptyBag /\ ~hist.ok

Called(to, purpose) ==
  \E c \in BagToSet(calls) : c.to = to /\ c.purpose = purpose

\* The response holds key k (JSON leaves out what is undefined).
Has(body, k) == k \in DOMAIN body /\ body[k] # Undefined

DescriberPath ==
  /\ rev = "rev4"
  /\ ~Truthy(Get(req.body, "image"))
  /\ Called("gemini", "generate") =>
       [source |-> "gemini", status |-> 429] \in hist.quota

LinksFor(q) ==
  [shopee |-> Str(<<"https://shopee.ph/search?keyword=">> \o q),
   lazada |-> Str(<<"https://www.lazada.com.ph/tag/">> \o q \o <<"/">>),
   amazon |-> Str(<<"https://www.amazon.com/s?k=">> \o q),
   aliexpress |-> Str(<<"https://www.aliexpress.com/wholesale?SearchText=">> \o q)]

Reserved == {" ", "\n", "&", "/", "[object Object]"}

\* C4: every 200 response has shop_links with exactly the four keys shopee,
\* lazada, amazon and aliexpress, each the fixed template around the same
\* URL-encoded term; what the refinement returns changes none of it.
C4_ShopLinks ==
  (Responded /\ Response.status = 200) =>
    /\ Has(Response.body, "shop_links")
    /\ LET links == Response.body["shop_links"]
       IN /\ IsObject(links)
          /\ DOMAIN links = {"shopee", "lazada", "amazon", "aliexpress"}
          /\ IsString(links["shopee"])
          /\ LET q == Tail(links["shopee"].v)
             IN /\ links = LinksFor(q)
                /\ q # <<>>
                /\ \A j \in 1..Len(q) : q[j] \notin Reserved

\* The refinement returned a record with shop_links of its own, and the
\* response is out.
C4_Witness ==
  /\ Responded
  /\ Response.status = 200
  /\ Called("groq", "refine")
  /\ Get(Response.body, "name") = Tampered["name"]
  /\ Get(baseJson, "name") # Tampered["name"]
  /\ Response.body["shop_links"] =
       LinksFor(<<"R", "%26", "D", "%20", "kit">>)

\* The term the links of the response search for.
LinkTerm == Tail(Response.body["shop_links"]["shopee"].v)

TrimmedQueryText ==
  Str(trim(IF IsString(Get(req.body, "queryText"))
           THEN Get(req.body, "queryText").v ELSE <<>>))

\* The resolved name of a record: its name, else the trimmed queryText, else
\* "electronics".
ResolvedName(record) ==
  Or(Get(record, "name"), Or(TrimmedQueryText, Str(<<"electronics">>)))

\* C5 as stated: the links search for the resolved name of the record the
\* response returns.
C5_TermOfResponse ==
  (Responded /\ Response.status = 200) =>
    LinkTerm = encodeURIComponent(ToText(ResolvedName(Response.body)))

\* C5, amended: the links search for the resolved name of the base record,
\* the record as it was before the refinement: its name when non-empty,
\* else the trimmed queryText, else "electronics".
C5_TermOfBaseRecord ==
  (Responded /\ Response.status = 200) =>
    LinkTerm = encodeURIComponent(ToText(ResolvedName(baseJson)))

\* The refinement renamed the record; the links keep the base record's name.
C5_Witness ==
  /\ Responded
  /\ Response.status = 200
  /\ Get(baseJson, "name") = Str(<<"LM7805">>)
  /\ Get(Response.body, "name") =
       Str(<<"LM7805", " ", "voltage", " ", "regulator">>)
  /\ LinkTerm = <<"LM7805">>

\* The generation provider the request needs is Gemini: an image, or a
\* preferredModel that is neither groq nor deepseek.
NeedsGemini ==
  \/ Truthy(Get(req.body, "image"))
  \/ ~IsString(Get(req.body, "preferredModel"))
  \/ toLowerCase(Get(req.body, "preferredModel").v)
       \notin {<<"groq">>, <<"deepseek">>}

\* C6 as stated: valid input that needs Gemini while GOOGLE_API_KEY is not
\* configured is answered 500, in image mode and in text-only mode alike.
C6_MissingKeyAlways500 ==
  (ValidInput /\ BodyRead /\ NeedsGemini /\ ~env.GOOGLE_API_KEY /\ Responded)
    => Response.status = 500

\* C6, amended: without GOOGLE_API_KEY, rev1 and rev2 answer 500 to every
\* request with an image or a queryText, and rev4 answers 500 to every
\* request with an image; no provider is called.
C6_MissingKey500 ==
  (/\ req.method = "POST" /\ req.body # Garbage /\ ~LacksInput(req.body)
   /\ BodyRead
   /\ ~env.GOOGLE_API_KEY
   /\ rev \in {"rev1", "rev2"} \/ (rev = "rev4" /\ Truthy(Get(req.body, "image"))))
    => /\ calls = EmptyBag
       /\ Responded => Response.status = 500

\* rev4 has answered an image request without GOOGLE_API_KEY.
C6_Witness ==
  /\ rev = "rev4"
  /\ Get(req.body, "image") = PngDataUrl
  /\ ~env.GOOGLE_API_KEY
  /\ Responded
  /\ Response.status = 500
  /\ quotaWarnings = <<[source |-> "gemini", status |-> 500]>>

\* meta.quotaWarnings of the response (empty when it has no meta).
Warnings ==
  IF Has(Response.body, "meta") /\ IsObject(Response.body["meta"])
  THEN Response.body["meta"]["quotaWarnings"]
  ELSE <<>>

SearchAndRefineSources ==
  {"google_cse_images", "serper_images", "google_cse_search", "serper_search",
   "groq_refine", "deepseek_refine"}

\* C7 as stated: whenever a provider answered with a quota or billing status
\* (429, 402, 403, or a Gemini quota error), meta.quotaWarnings of the
\* response names that provider as source with that status; a search or
\* refinement provider's reply with any other status adds no entry.
C7_QuotaWarnings ==
  (rev = "rev4" /\ Responded) =>
    /\ \A w \in hist.quota :
         \E i \in 1..Len(Warnings) :
           Warnings[i].source = w.source /\ Warnings[i].status = w.status
    /\ \A i \in 1..Len(Warnings) :
         Warnings[i].source \in SearchAndRefineSources =>
           Warnings[i].status \in QuotaStatuses

\* Every outbound call is made at most once per provider, purpose and query;
\* in rev4 that is at most one Gemini call, one describe call, one Google
\* and one Serper call per image query and for the datasheet, and one
\* refinement call.
C8_NothingRetried ==
  /\ \A c \in BagToSet(calls) : CopiesIn(c, calls) = 1
  /\ \A to \in {"google", "serper"} :
       /\ Cardinality({c \in BagToSet(calls) :
                         c.to = to /\ c.purpose = "image"}) <= 3
       /\ Cardinality({c \in BagToSet(calls) :
                         c.to = to /\ c.purpose = "datasheet"}) <= 1
  /\ Cardinality({c \in BagToSet(calls) : c.purpose = "generate"}) <= 1
  /\ Cardinality({c \in BagToSet(calls) : c.purpose = "refine"}) <= 1
  /\ rev = "rev4" =>
       Cardinality({c \in BagToSet(calls) : c.purpose = "describe"}) <= 1

\* How far a lookup or a search is from its end.
StRank(st) ==
  CASE st = "idle" -> 3 [] st = "google" -> 2 [] st = "serper" -> 1
    [] st = "done" -> 0

\* How far the handler is from its answer.
PcRank ==
  CASE pc = "entry" -> 9
    [] pc = "readJsonBody" -> 8
    [] pc = "gemini" -> 7
    [] pc \in {"groqDescribe", "deepseekDescribe", "callDeepSeek"} -> 6
    [] pc = "callGroq" -> 5
    [] pc = "images" -> 4
    [] pc = "datasheet" -> 3
    [] pc = "refine" -> 2
    [] pc = "done" -> 0

\* A bound on the steps the request can still take: the handler's awaits,
\* the chunks of the body, the searches of the lookups and of the datasheet.
StepsLeft ==
  PcRank
    + (IF stream.open THEN MaxChunks + 1 - stream.events ELSE 0)
    + StRank(lookups[1].st) + StRank(lookups[2].st) + StRank(lookups[3].st)
    + StRank(ds.st)

\* C8: nothing is retried: every outbound call is made at most once per
\* provider, purpose and query, and every step (a call that returns or
\* fails, an event of the request stream) brings the handler nearer to its
\* answer, so that it answers after that bounded number of calls.
C8_AnswersWithoutRetry ==
  /\ [](C8_NothingRetried /\ (Responded <=> PcRank = 0))
  /\ [][StepsLeft' < StepsLeft]_vars

\* Every call the handler can make has been made, each once, and the
\* request is answered.
C8_Witness ==
  /\ rev = "rev4"
  /\ Responded
  /\ Response.status = 200
  /\ BagCardinality(calls) = 11
  /\ Called("gemini", "generate")
  /\ Called("groq", "describe")
  /\ Called("groq", "refine")

ImageSources == {"google_cse_images", "serper_images"}
DatasheetSources == {"google_cse_search", "serper_search"}

\* C9: a failed image or datasheet search is no result and never changes the
\* status: once there is a base record the request ends 200, with null
\* images when no image search returned a result, and null datasheet_url
\* and empty references when no datasheet search returned one.
C9_SearchFailuresTolerated ==
  (Responded /\ IsObject(baseJson)) =>
    /\ Response.status = 200
    /\ hist.found \cap ImageSources = {} =>
         \A i \in 1..3 : Response.body[ImageFields[i]] = Null
    /\ hist.found \cap DatasheetSources = {} =>
         /\ Response.body["datasheet_url"] = Null
         /\ Response.body["references"] = Arr(<<>>)

\* Every search was made and none returned a result, some with a quota
\* status, and the request is answered.
C9_Witness ==
  /\ Responded
  /\ IsObject(baseJson)
  /\ hist.found = {}
  /\ hist.quota # {}
  /\ Called("google", "image") /\ Called("serper", "image")
  /\ Called("google", "datasheet") /\ Called("serper", "datasheet")
  /\ Cardinality({c \in BagToSet(calls) : c.purpose = "image"}) = 6
  /\ Response.status = 200
  /\ Response.body["real_image"] = Null
  /\ Response.body["references"] = Arr(<<>>)

ResponseFields == PromptFields \cup ServerFields \cup {"meta"}

\* C10 as stated: every 200 response has all of the ten descriptive fields,
\* the six fields of the server and meta, whatever the provider returned.
C10_AllFields ==
  (Responded /\ Response.status = 200) =>
    \A k \in ResponseFields : Has(Response.body, k)

\* C10, amended: every 200 response has the six fields the server writes
\* (real_image, usage_image, pinout_image, datasheet_url, references,
\* shop_links), and in rev4 meta with quotaWarnings and preferredModel; the
\* descriptive fields are there only as far as the provider returned them.
C10_ServerFields ==
  (Responded /\ Response.status = 200) =>
    /\ \A k \in {"real_image", "usage_image", "pinout_image", "datasheet_url",
                 "references", "shop_links"} : Has(Response.body, k)
    /\ rev = "rev4" =>
         /\ Has(Response.body, "meta")
         /\ DOMAIN Response.body["meta"] = {"quotaWarnings", "preferredModel"}
         /\ Response.body["meta"]["quotaWarnings"] = quotaWarnings
         /\ Response.body["meta"]["preferredModel"] \in allowedModels

\* Generation and refinement returned {}: the 200 response has no name.
C10_Witness ==
  /\ rev = "rev4"
  /\ Responded
  /\ Response.status = 200
  /\ Called("groq", "refine")
  /\ \A k \in PromptFields : ~Has(Response.body, k)
  /\ Has(Response.body, "meta")
  /\ Has(Response.body, "shop_links")

\* A text-only request of rev4 whose preferredModel is auto or gemini (or is
\* treated as auto), with its body read.
GeminiFirstRequest ==
  /\ rev = "rev4"
  /\ ValidInput
  /\ BodyRead
  /\ ~Truthy(Get(req.body, "image"))
  /\ NeedsGemini

\* model.generateContent gave no record: it threw, or its text did not parse.
GeminiFailed ==
  /\ hist.gemini.kind # "none"
  /\ ~(hist.gemini.kind = "text" /\ hist.gemini.json # Unparsable)

\* The text of that failure carries a quota mark.
GeminiQuotaFailure == GeminiFailed /\ isQuotaError(hist.gemini.msg)

Spellings ==
  [auto |-> {"auto", "AUTO", "Auto"},
   gemini |-> {"gemini", "GEMINI", "Gemini"},
   groq |-> {"groq", "GROQ", "Groq"},
   deepseek |-> {"deepseek", "DEEPSEEK", "DeepSeek"}]

\* The model the request asks for: one of the four names in any case, auto
\* for a missing, non-string or unrecognised preferredModel.
RequestedModel ==
  LET p == Get(req.body, "preferredModel")
      named == {m \in DOMAIN Spellings :
                  IsString(p) /\ Len(p.v) = 1 /\ p.v[1] \in Spellings[m]}
  IN IF named = {} THEN "auto" ELSE CHOOSE m \in named : TRUE

\* The response carries meta.preferredModel.
HasPreferredModel ==
  /\ Has(Response.body, "meta")
  /\ IsObject(Response.body["meta"])
  /\ "preferredModel" \in DOMAIN Response.body["meta"]

\* C12: preferredModel is matched against auto, gemini, groq and deepseek
\* whatever its case, and a missing, non-string or unrecognised value counts
\* as auto: the 400 and the missing-key 500, sent before any fallback, carry
\* the model so matched, a text-only request goes to the describer it names,
\* and meta.preferredModel of every response that has one is one of the four.
C12_PreferredModel ==
  /\ (Responded /\ HasPreferredModel) =>
       /\ Response.body["meta"]["preferredModel"] \in
            {"auto", "gemini", "groq", "deepseek"}
       /\ (Response.status \in {400, 500} /\ calls = EmptyBag) =>
            Response.body["meta"]["preferredModel"] = RequestedModel
  /\ (rev = "rev4" /\ ValidInput /\ ~Truthy(Get(req.body, "image"))) =>
       /\ Called("groq", "describe") =>
            RequestedModel \in {"groq", "auto", "gemini"}
       /\ Called("deepseek", "describe") => RequestedModel = "deepseek"
       /\ Called("gemini", "generate") => RequestedModel \in {"auto", "gemini"}

\* preferredModel "GEMINI" came with no input: the 400 names gemini.
C12_Witness ==
  /\ rev = "rev4"
  /\ Get(req.body, "preferredModel") = Str(<<"GEMINI">>)
  /\ Responded
  /\ Response.status = 400
  /\ HasPreferredModel
  /\ Response.body["meta"]["preferredModel"] = "gemini"

\* --- Two requests in one process ------------------------------------------
\* The state of an invocation whose request q has just arrived; n is what
\* the providers answer to its calls.
Fresh(n, q) ==
  [req |-> q, net |-> n, pc |-> "entry", stream |-> NewStream(q),
   loc |-> NoLocals, baseJson |-> Null, lookups |-> IdleLookups, ds |-> IdleDs,
   quotaWarnings |-> <<>>, res |-> <<>>, calls |-> EmptyBag,
   hist |-> [ok |-> FALSE, quota |-> {}, found |-> {}, gemini |-> NoGemini,
             answered |-> {}, results |-> {}]]

PairRequests ==
  {Request("POST", "application/json", 64, Body(Undefined, Str(<<"NE555">>), p)) :
     p \in {Undefined, Str(<<"deepseek">>)}}

\* Every provider answers OK; every provider is out of quota.
NetFine ==
  Net({GeminiText(Regulator, {})}, {OkContent(Renamed)}, {OkContent(Regulator)},
      {OkItems(<<PdfItem>>)}, {OkItems(<<UrlItem>>)})
NetQuota ==
  Net({GeminiThrows({"429"})}, {Status(429, TRUE)}, {Status(402, TRUE)},
      {Status(403, TRUE)}, {Status(429, TRUE)})

\* The invocation o is the one that runs.
Running(o) ==
  /\ req = o.req
  /\ net = o.net
  /\ pc = o.pc
  /\ stream = o.stream
  /\ loc = o.loc
  /\ baseJson = o.baseJson
  /\ lookups = o.lookups
  /\ ds = o.ds
  /\ quotaWarnings = o.quotaWarnings
  /\ res = o.res
  /\ calls = o.calls
  /\ hist = o.hist

InitPair ==
  /\ rev \in Revisions
  /\ env = AllKeys
  /\ \E n \in {NetFine, NetQuota}, q \in PairRequests : Running(Fresh(n, q))
  /\ peer \in {Fresh(n, q) : n \in {NetFine, NetQuota}, q \in PairRequests}

NextPair == Next \/ Yield

SpecPair == InitPair /\ [][NextPair]_vars

\* A quotaWarnings entry with a quota status that this request's own calls
\* account for.
OwnWarning(w) ==
  \/ w.status \notin QuotaStatuses
  \/ [source |-> w.source, status |-> w.status] \in hist.quota
  \/ w.source = "gemini" /\ isQuotaError(hist.gemini.msg)

\* C13: the handler keeps no state between requests.  With two requests in
\* flight in any interleaving: two requests with the same body, the same
\* provider replies and the same outcome of reading the body get the same
\* response; every quotaWarnings entry of a response stems from a reply to a
\* call of that same request, and there are no more entries than calls it
\* made (and one for a missing key); and a step of one request changes
\* nothing the other owns.
C13_NoSharedState ==
  /\ [](peer # NoPeer =>
         /\ (/\ Responded /\ peer.pc = "done"
             /\ req = peer.req /\ net = peer.net
             /\ stream.promise = peer.stream.promise) => res = peer.res
         /\ Responded =>
              /\ \A i \in 1..Len(Warnings) : OwnWarning(Warnings[i])
              /\ Len(Warnings) <= BagCardinality(calls) + 1)
  /\ [][peer' = peer \/ (peer' = Own /\ Own' = peer)]_vars

\* Both requests are answered: one met providers out of quota and carries
\* their warnings, the other was answered by all of them and carries none.
C13_Witness ==
  /\ peer # NoPeer
  /\ rev = "rev4"
  /\ Responded /\ peer.pc = "done"
  /\ net = NetFine /\ peer.net = NetQuota
  /\ Response.status = 200 /\ peer.res[1].status = 200
  /\ Warnings = <<>>
  /\ Len(peer.res[1].body["meta"]["quotaWarnings"]) > 3
  /\ BagCardinality(calls) > 2

GenerationCalls == {c \in BagToSet(calls) : c.purpose \in {"generate", "describe"}}
SearchCalls == {c \in BagToSet(calls) : c.purpose \in {"image", "datasheet"}}

\* The handler is past its generation step.
PastGeneration == pc \in {"images", "datasheet", "refine", "done"}

AllSearchesDone ==
  /\ \A i \in 1..3 : lookups[i].st = "done"
  /\ ds.st = "done"

\* C14: each revision parses, generates, searches and merges in this order:
\* a generation provider is called only once the body is read and holds an
\* image or a queryText (and, where the revision checks it, the image is a
\* data URL); a search provider is called only once there is a base record;
\* the refinement is called and the 200 is sent only once the three image
\* lookups and the datasheet search have returned.
C14_FourSteps ==
  /\ GenerationCalls # {} =>
       /\ req.method = "POST"
       /\ BodyRead
       /\ req.body # Garbage
       /\ ~LacksInput(req.body)
       /\ (rev # "rev3" /\ Truthy(Get(req.body, "image"))) =>
            extractBase64FromDataUrl(Get(req.body, "image")) # Null
  /\ SearchCalls # {} =>
       /\ PastGeneration
       /\ baseJson # Null
  /\ ~PastGeneration => ~Called("groq", "refine") /\ ~Called("deepseek", "refine")
  /\ (Called("groq", "refine") \/ Called("deepseek", "refine")) => AllSearchesDone
  /\ pc = "refine" => AllSearchesDone
  /\ (Responded /\ Response.status = 200) =>
       /\ AllSearchesDone
       /\ \A i \in 1..3 : Response.body[ImageFields[i]] = lookups[i].url

\* rev3, whose three lookups run side by side, has answered 200 after four
\* image calls and the datasheet search.
C14_Witness ==
  /\ rev = "rev3"
  /\ Responded
  /\ Response.status = 200
  /\ GenerationCalls # {}
  /\ Cardinality({c \in SearchCalls : c.purpose = "image"}) > 3
  /\ Called("google", "datasheet")
  /\ AllSearchesDone

\* C15: the server's fields pass through the refinement untouched: real_image,
\* usage_image, pinout_image, datasheet_url, references and shop_links of a
\* 200 response are the values the base record held when the refinement was
\* called, the images being what the three lookups returned, whatever record
\* (fields dropped, changed or added, or no record) the refinement returns.
C15_ServerFieldsPreserved ==
  /\ []((Responded /\ Response.status = 200) =>
         /\ \A i \in 1..3 : Response.body[ImageFields[i]] = lookups[i].url
         /\ \A k \in ServerFields : Response.body[k] = baseJson[k])
  /\ [][(pc = "refine" /\ pc' = "done") =>
         /\ res'[1].status = 200
         /\ \A k \in ServerFields :
              /\ k \in DOMAIN baseJson
              /\ res'[1].body[k] = baseJson[k]]_vars

\* The refinement returned a record with links of its own and without
\* usage_image; the response has the server's.
C15_Witness ==
  /\ Responded
  /\ Response.status = 200
  /\ Called("groq", "refine")
  /\ Get(Response.body, "official_store") = Tampered["official_store"]
  /\ Get(baseJson, "official_store") = Undefined
  /\ Response.body["real_image"] # Tampered["real_image"]
  /\ Response.body["real_image"] # Null
  /\ Response.body["datasheet_url"] = Str(<<"https://host/", "LM7805", ".pdf">>)
  /\ Response.body["usage_image"] # Undefined

RefineCalls == {c \in BagToSet(calls) : c.purpose = "refine"}

\* C16: in rev4 the backend model alone chooses the refinement, and at most
\* one refinement call is made: to DeepSeek when the backend model is
\* deepseek, to Groq when it is groq or auto (each when its key is set), and
\* none when it is gemini, where the response is Gemini's record as it came,
\* with the server's fields and meta.
C16_RefinementByBackend ==
  (rev = "rev4" /\ Responded /\ Response.status = 200) =>
    LET backend == Response.body["meta"]["preferredModel"]
    IN /\ Cardinality(RefineCalls) <= 1
       /\ \A c \in RefineCalls : CopiesIn(c, calls) = 1
       /\ backend = "deepseek" =>
            /\ ~Called("groq", "refine")
            /\ Called("deepseek", "refine") <=> env.DEEPSEEK_API_KEY
       /\ backend \in {"groq", "auto"} =>
            /\ ~Called("deepseek", "refine")
            /\ Called("groq", "refine") <=> env.GROQ_API_KEY
       /\ backend = "gemini" =>
            /\ RefineCalls = {}
            /\ Response.body =
                 [meta |-> [quotaWarnings |-> quotaWarnings,
                            preferredModel |-> "gemini"]] @@ baseJson
            /\ \A k \in DOMAIN hist.gemini.json \ (ServerFields \cup {"meta"}) :
                 Response.body[k] = hist.gemini.json[k]

\* preferredModel gemini: the record came back without any refinement call.
C16_Witness ==
  /\ rev = "rev4"
  /\ Responded
  /\ Response.status = 200
  /\ Response.body["meta"]["preferredModel"] = "gemini"
  /\ ~Truthy(Get(req.body, "image"))
  /\ env.GROQ_API_KEY /\ env.DEEPSEEK_API_KEY
  /\ RefineCalls = {}
  /\ Get(Response.body, "name") = Str(<<"LM7805">>)

\* model.generateContent returned text that parsed.
GeminiParsed == hist.gemini.kind = "text" /\ hist.gemini.json # Unparsable

\* C17: in rev4 a request with an image gets its base record from Gemini,
\* whatever preferredModel says: no describer is called; the request ends 400
\* (the image is no data URL), 429 (Gemini failed with a quota mark), 500
\* (no key, another Gemini failure, the body could not be read, or Gemini's
\* output is no object), or 200 with Gemini's record; and preferredModel, as
\* requested, is the backend model that selects the refinement.
C17_GeminiFirstPass ==
  (/\ rev = "rev4" /\ req.method = "POST" /\ req.body # Garbage
   /\ Truthy(Get(req.body, "image"))) =>
    /\ ~Called("groq", "describe") /\ ~Called("deepseek", "describe")
    /\ pc \notin {"groqDescribe", "deepseekDescribe"}
    /\ PastGeneration /\ baseJson # Null => GeminiParsed
    /\ Responded =>
         /\ Response.status \in {200, 400, 429, 500}
         /\ Response.status = 400 <=>
              (BodyRead /\ env.GOOGLE_API_KEY
               /\ extractBase64FromDataUrl(Get(req.body, "image")) = Null)
         /\ Response.status = 429 <=> GeminiQuotaFailure
         /\ Response.status = 200 <=> (GeminiParsed /\ IsObject(hist.gemini.json))
         /\ Response.status = 200 =>
              /\ \A k \in DOMAIN hist.gemini.json \ (ServerFields \cup {"meta"}) :
                   baseJson[k] = hist.gemini.json[k]
              /\ Response.body["meta"]["preferredModel"] = RequestedModel
              /\ RequestedModel = "gemini" => RefineCalls = {}
              /\ (RequestedModel = "deepseek" /\ env.DEEPSEEK_API_KEY) =>
                   Called("deepseek", "refine")
              /\ (RequestedModel \in {"groq", "auto"} /\ env.GROQ_API_KEY) =>
                   Called("groq", "refine")

\* An image came with preferredModel deepseek: Gemini described it and
\* DeepSeek was only asked to refine.
C17_Witness ==
  /\ rev = "rev4"
  /\ Get(req.body, "image") = PngDataUrl
  /\ RequestedModel = "deepseek"
  /\ Responded
  /\ Response.status = 200
  /\ Called("gemini", "generate")
  /\ Called("deepseek", "refine")
  /\ ~Called("deepseek", "describe")

\* The describer who (groqDescribeFromText, deepseekDescribeFromText) gave
\* the base record: it called its provider, or, having no key, returned its
\* placeholder.
DescribedBy(who) ==
  \/ Called(who, "describe")
  \/ /\ ~GeminiParsed
     /\ ~(IF who = "groq" THEN env.GROQ_API_KEY ELSE env.DEEPSEEK_API_KEY)
     /\ Get(baseJson, "description") =
          Str(<<"Text-only fallback entry.", " ", who>>)

\* C18 as stated: meta.preferredModel of a 200 response names the backend
\* that produced the base record: groq exactly when the Groq describer did,
\* deepseek exactly when the DeepSeek describer did, gemini or auto only when
\* Gemini did.
C18_NamesProducer ==
  (rev = "rev4" /\ Responded /\ Response.status = 200) =>
    LET m == Response.body["meta"]["preferredModel"]
    IN /\ m = "groq" <=> DescribedBy("groq")
       /\ m = "deepseek" <=> DescribedBy("deepseek")
       /\ m \in {"gemini", "auto"} => GeminiParsed

\* C18, amended: in text-only mode meta.preferredModel of a 200 response
\* names the backend that produced the base record (groq exactly when the
\* Groq describer did, requested or as fallback; deepseek exactly when the
\* DeepSeek describer did; gemini or auto, as requested, when Gemini did).
\* In image mode Gemini produced the record and meta.preferredModel is the
\* requested model, groq and deepseek included.
C18_TextModeNamesProducer ==
  (rev = "rev4" /\ Responded /\ Response.status = 200) =>
    LET m == Response.body["meta"]["preferredModel"]
    IN IF Truthy(Get(req.body, "image"))
       THEN /\ GeminiParsed
            /\ ~DescribedBy("groq") /\ ~DescribedBy("deepseek")
            /\ m = RequestedModel
       ELSE /\ m = "groq" <=> DescribedBy("groq")
            /\ m = "deepseek" <=> DescribedBy("deepseek")
            /\ m \in {"gemini", "auto"} <=> GeminiParsed
            /\ GeminiParsed =>
                 m = (IF RequestedModel = "gemini" THEN "gemini" ELSE "auto")
            /\ DescribedBy("deepseek") => RequestedModel = "deepseek"

\* gemini was requested for a text, Gemini was out of quota and the Groq
\* describer gave the record: the response names groq.
C18_Witness ==
  /\ rev = "rev4"
  /\ ~Truthy(Get(req.body, "image"))
  /\ RequestedModel = "gemini"
  /\ GeminiQuotaFailure
  /\ Called("groq", "describe")
  /\ Responded
  /\ Response.status = 200
  /\ Response.body["meta"]["preferredModel"] = "groq"

\* What the search calls to provider to for purpose and query q were
\* answered with (no element: no such call has returned).
ResultsOf(to, purpose, q) ==
  {x \in hist.results : x.to = to /\ x.purpose = purpose /\ x.q = q}

\* The URL Google's image search gave for query q: the link of the first
\* result; null when Google was not asked, failed or had no result.
GoogleImageUrl(q) ==
  LET got == {x \in ResultsOf("google", "image", q) :
                x.items # <<>> /\ Truthy(Get(x.items[1], "link"))}
  IN IF got = {} THEN Null ELSE (CHOOSE x \in got : TRUE).items[1]["link"]

\* The URL Serper's image search gave for query q.
SerperImageUrl(q) ==
  LET got == ResultsOf("serper", "image", q)
  IN IF got = {} THEN Null
     ELSE FirstImageUrl(rev, (CHOOSE x \in got : TRUE).items)

\* The query of the i-th image lookup, as text.
LookupQuery(i) == ToText(ImageQuery(rev, i, loc.nameOrQuery))

\* C19: image search is Google first, then Serper: the Serper image call for
\* a query is made only after Google's call for that query returned no URL
\* (or Google is not configured) and never when Google returned one; each
\* query is answered at most once by each provider; and the lookup's result
\* is Google's URL when there is one, else Serper's, else null.
C19_GoogleThenSerper ==
  /\ \A c \in BagToSet(calls) :
       (c.to = "serper" /\ c.purpose = "image") =>
         /\ GoogleImageUrl(c.q) = Null
         /\ (env.CSE_API_KEY /\ env.CSE_CX) =>
              ResultsOf("google", "image", c.q) # {}
  /\ \A x \in hist.results :
       x.purpose = "image" =>
         /\ Cardinality(ResultsOf(x.to, "image", x.q)) = 1
         /\ \E c \in BagToSet(calls) :
              c.to = x.to /\ c.purpose = "image" /\ c.q = x.q
  /\ pc = "images" =>
       \A i \in 1..3 :
         /\ lookups[i].st = "serper" =>
              /\ GoogleImageUrl(LookupQuery(i)) = Null
              /\ ResultsOf("serper", "image", LookupQuery(i)) = {}
         /\ lookups[i].st \in {"idle", "google"} =>
              /\ ResultsOf("google", "image", LookupQuery(i)) = {}
              /\ ResultsOf("serper", "image", LookupQuery(i)) = {}
  /\ (PastGeneration /\ IsObject(baseJson)) =>
       \A i \in 1..3 :
         lookups[i].st = "done" =>
           /\ lookups[i].url =
                (IF GoogleImageUrl(LookupQuery(i)) # Null
                 THEN GoogleImageUrl(LookupQuery(i))
                 ELSE SerperImageUrl(LookupQuery(i)))
           /\ (GoogleImageUrl(LookupQuery(i)) = Null /\ env.SERPER_API_KEY) =>
                ResultsOf("serper", "image", LookupQuery(i)) # {}
           /\ (Responded /\ Response.status = 200) =>
                Response.body[ImageFields[i]] = lookups[i].url

\* Google found the first image and Serper was not asked for it; Google
\* failed for the second, and the response has Serper's URL there.
C19_Witness ==
  /\ Responded
  /\ Response.status = 200
  /\ Cardinality({c \in BagToSet(calls) : c.to = "google" /\ c.purpose = "image"}) = 3
  /\ Cardinality({c \in BagToSet(calls) : c.to = "serper" /\ c.purpose = "image"}) = 2
  /\ GoogleImageUrl(LookupQuery(1)) = PlainItem["link"]
  /\ ResultsOf("serper", "image", LookupQuery(1)) = {}
  /\ Response.body["real_image"] = PlainItem["link"]
  /\ GoogleImageUrl(LookupQuery(2)) = Null
  /\ Response.body["usage_image"] = PdfItem["imageUrl"]

\* What the datasheet search of provider to found: the datasheet link and
\* the references among the results it was answered with (nothing when it
\* was not asked or failed).
DatasheetFound(to) ==
  LET got == {x \in hist.results : x.to = to /\ x.purpose = "datasheet"}
  IN IF got = {} THEN NoDatasheet
     ELSE ScanItems(rev, IF to = "google" THEN "cse" ELSE "serper",
                    (CHOOSE x \in got : TRUE).items, NoDatasheet)

\* Google's datasheet search was answered OK.
GoogleDatasheetOk == "google_cse_search" \in hist.answered

\* fetchDatasheetAndReferences has returned.
DatasheetFetched == ds.st = "done" /\ IsObject(baseJson)

GoogleLacks ==
  \/ ~Truthy(DatasheetFound("google").datasheetUrl)
  \/ DatasheetFound("google").references = <<>>

\* Serper fills what Google's result lacks, and nothing else.
FilledBySerper ==
  /\ baseJson["datasheet_url"] =
       (IF Truthy(DatasheetFound("google").datasheetUrl)
        THEN DatasheetFound("google").datasheetUrl
        ELSE DatasheetFound("serper").datasheetUrl)
  /\ baseJson["references"] =
       Arr(IF DatasheetFound("google").references # <<>>
           THEN DatasheetFound("google").references
           ELSE DatasheetFound("serper").references)

\* Nothing is searched for an empty name.
EmptyNameSkipsSearch ==
  (DatasheetFetched /\ ~Truthy(DatasheetName(H))) =>
    /\ ~Called("google", "datasheet") /\ ~Called("serper", "datasheet")
    /\ baseJson["datasheet_url"] = Null
    /\ baseJson["references"] = Arr(<<>>)

\* C20 as stated: in every revision fetchDatasheetAndReferences calls Serper
\* if and only if Google gave no datasheet URL or no references, and Serper
\* only fills what is missing.
C20_SerperIffGoogleLacks ==
  /\ (DatasheetFetched /\ Truthy(DatasheetName(H)) /\ env.SERPER_API_KEY) =>
       /\ Called("serper", "datasheet") <=> GoogleLacks
       /\ FilledBySerper
  /\ EmptyNameSkipsSearch

\* C20, amended: in rev1, rev2 and rev4 fetchDatasheetAndReferences calls
\* Serper (when SERPER_API_KEY is set) if and only if Google gave no
\* datasheet URL or no references, and Serper only fills what is missing: a
\* datasheet URL and a non-empty reference list from Google are kept.  rev3
\* returns what Google answered whenever Google answered OK, even with
\* nothing in it, and otherwise asks Serper and returns Serper's result.
\* With an empty name no revision calls either provider, and the result is
\* a null URL and no references.
C20_SerperFillsMissing ==
  /\ (DatasheetFetched /\ Truthy(DatasheetName(H))) =>
       /\ Called("google", "datasheet") <=> (env.CSE_API_KEY /\ env.CSE_CX)
       /\ IF rev = "rev3"
          THEN /\ Called("serper", "datasheet") <=>
                    (env.SERPER_API_KEY /\ ~GoogleDatasheetOk)
               /\ baseJson["datasheet_url"] =
                    DatasheetFound(IF GoogleDatasheetOk THEN "google"
                                   ELSE "serper").datasheetUrl
               /\ baseJson["references"] =
                    Arr(DatasheetFound(IF GoogleDatasheetOk THEN "google"
                                       ELSE "serper").references)
          ELSE /\ Called("serper", "datasheet") <=>
                    (env.SERPER_API_KEY /\ GoogleLacks)
               /\ FilledBySerper
  /\ EmptyNameSkipsSearch
  /\ pc = "datasheet" /\ ds.st = "serper" =>
       /\ ~Called("serper", "datasheet")
       /\ rev # "rev3" => GoogleLacks
       /\ rev = "rev3" => ~GoogleDatasheetOk

\* Google found references but no datasheet link: Serper was asked, its
\* link was taken and Google's references were kept.
C20_Witness ==
  /\ rev = "rev4"
  /\ DatasheetFetched
  /\ Called("google", "datasheet") /\ Called("serper", "datasheet")
  /\ DatasheetFound("google").datasheetUrl = Null
  /\ Len(DatasheetFound("google").references) = 1
  /\ Len(DatasheetFound("serper").references) = 2
  /\ baseJson["datasheet_url"] = PdfItem["link"]
  /\ Len(baseJson["references"].v) = 1
  /\ baseJson["references"].v[1].url = PlainItem["link"]
  /\ Responded

\* The datasheet lookup of rev3 has returned for a name, with Serper
\* configured.
Rev3DatasheetFetched ==
  /\ rev = "rev3"
  /\ DatasheetFetched
  /\ Truthy(DatasheetName(H))
  /\ env.SERPER_API_KEY

\* C21 as stated: in rev3 the datasheet lookup goes on to Serper whenever
\* Google gave no datasheet link for the name, also when Google answered OK
\* with no items or with no link that qualifies.
C21_SerperWheneverNoDatasheet ==
  (Rev3DatasheetFetched /\ ~Truthy(DatasheetFound("google").datasheetUrl)) =>
    Called("serper", "datasheet")

\* C21, amended: in rev3 the datasheet lookup asks Google first (when
\* CSE_API_KEY and CSE_CX are set) and goes on to Serper only when Google was
\* not asked or did not answer OK (a non-OK status, a failed fetch, a body
\* that is not JSON).  An OK answer of Google's ends the lookup: its link and
\* references are the result, and with no items or no qualifying link the
\* datasheet URL is null and Serper is not asked.
C21_SerperWhenGoogleNotOk ==
  /\ (rev = "rev3" /\ Called("serper", "datasheet")) =>
       /\ ~GoogleDatasheetOk
       /\ (env.CSE_API_KEY /\ env.CSE_CX) => Called("google", "datasheet")
  /\ Rev3DatasheetFetched =>
       /\ Called("serper", "datasheet") <=> ~GoogleDatasheetOk
       /\ GoogleDatasheetOk =>
            /\ baseJson["datasheet_url"] = DatasheetFound("google").datasheetUrl
            /\ baseJson["references"] = Arr(DatasheetFound("google").references)
       /\ ~GoogleDatasheetOk =>
            /\ baseJson["datasheet_url"] = DatasheetFound("serper").datasheetUrl
            /\ baseJson["references"] = Arr(DatasheetFound("serper").references)
  /\ (rev = "rev3" /\ Responded /\ Response.status = 200 /\ IsObject(baseJson)) =>
       Response.body["datasheet_url"] = baseJson["datasheet_url"]

\* Google answered the datasheet search OK with no items: rev3 answered 200
\* with a null datasheet URL and never asked Serper, whose key is set.
C21_Witness ==
  /\ Rev3DatasheetFetched
  /\ GoogleDatasheetOk
  /\ \E x \in hist.results :
       x.to = "google" /\ x.purpose = "datasheet" /\ x.items = <<>>
  /\ ~Called("serper", "datasheet")
  /\ Responded
  /\ Response.status = 200
  /\ Response.body["datasheet_url"] = Null

\* readJsonBody counts the bytes of the body (rev3 and rev4).
CountsBytes == rev \in {"rev3", "rev4"}

\* The running total of the chunk lengths has exceeded MAX_BYTES.
OverLimit == CountsBytes /\ stream.bytes > MAX_BYTES

\* The read was rejected for the size of the body and the request stream
\* destroyed; the handler answered 500, once, and called no provider.
RejectedForSize ==
  /\ stream.promise = "rejected"
  /\ stream.destroyed
  /\ Responded
  /\ Len(res) = 1
  /\ Response.status = 500
  /\ calls = EmptyBag

BadImageSeen ==
  /\ req.method = "POST"
  /\ Truthy(loc.image)
  /\ extractBase64FromDataUrl(loc.image) = Null

\* No call of Gemini carries the image.
GeminiWithoutImage ==
  \A c \in BagToSet(calls) : c.to = "gemini" => c.q = <<>>

\* C23 as stated: a POST whose image is not a base64 data URL is answered
\* 400 "Image must be a base64 data URL" and Gemini is never called with it,
\* whatever the queryText, preferredModel and credentials.
C23_BadImageAlways400 ==
  (BadImageSeen /\ Responded) =>
    /\ Response.status = 400
    /\ Response.body["error"] = "Image must be a base64 data URL"
    /\ GeminiWithoutImage

\* C23, amended: in rev1, rev2 and rev4 a POST whose image is not a base64
\* data URL is answered at once and without any provider call, whatever its
\* queryText and preferredModel: with 400 "Image must be a base64 data URL"
\* when GOOGLE_API_KEY is set, and with 500 when it is not, since the key is
\* tested first.  rev3 never answers 400 for it: it leaves the image out,
\* calls Gemini without it when GOOGLE_API_KEY is set, and goes on to its
\* fallback providers.  In no revision does a call of Gemini carry such an
\* image: the image is sent only when it is a base64 data URL.
C23_BadImage ==
  /\ (BadImageSeen /\ rev # "rev3") =>
       /\ Responded
       /\ Len(res) = 1
       /\ calls = EmptyBag
       /\ IF env.GOOGLE_API_KEY
          THEN /\ Response.status = 400
               /\ Response.body["error"] = "Image must be a base64 data URL"
          ELSE Response.status = 500
  /\ (BadImageSeen /\ rev = "rev3") =>
       /\ pc # "gemini" =>
            (Called("gemini", "generate") <=> env.GOOGLE_API_KEY)
       /\ Responded => Response.status \in {200, 500}
  /\ BadImageSeen => GeminiWithoutImage
  /\ \A c \in BagToSet(calls) :
       (c.to = "gemini" /\ c.q # <<>>) =>
         /\ IsString(loc.image)
         /\ extractBase64FromDataUrl(loc.image) # Null

\* With GOOGLE_API_KEY set, rev4 answered 400 to an image that is a plain
\* URL, although the request has a queryText and asks for Groq.
C23_Witness ==
  /\ rev = "rev4"
  /\ env.GOOGLE_API_KEY
  /\ BadImageSeen
  /\ IsString(loc.image)
  /\ Truthy(loc.safeQueryText)
  /\ loc.preferredModel = "groq"
  /\ Responded
  /\ Response.status = 400
  /\ Response.body["error"] = "Image must be a base64 data URL"
  /\ calls = EmptyBag

\* rev3: the fallback provider who returned a record.
Produced(who) == loc.provider = who

\* Gemini answered with a record: its text parses to an object.
GeminiGaveRecord ==
  /\ hist.gemini.kind = "text"
  /\ IsObject(hist.gemini.json)

AllProvidersFailed ==
  /\ Responded
  /\ Response.status = 500
  /\ Response.body["error"] = "All AI providers failed to return valid JSON."

\* C24: in rev3 the generation chain is Gemini, then DeepSeek, then Groq:
\* DeepSeek is called only when Gemini gave no record, Groq only when
\* DeepSeek gave none either, the request is answered 500 "All AI providers
\* failed" exactly when none of the three gave a record, and no search
\* provider is called in that case.
C24_GenerationChain ==
  rev = "rev3" =>
    /\ Called("deepseek", "describe") =>
         /\ ~GeminiGaveRecord
         /\ env.GOOGLE_API_KEY => Called("gemini", "generate")
    /\ Called("groq", "describe") =>
         /\ ~GeminiGaveRecord
         /\ ~Produced("deepseek")
         /\ env.DEEPSEEK_API_KEY => Called("deepseek", "describe")
    /\ AllProvidersFailed =>
         /\ ~GeminiGaveRecord
         /\ ~Produced("deepseek") /\ ~Produced("groq")
         /\ SearchCalls = {}
    /\ (Responded /\ Response.status = 200) =>
         GeminiGaveRecord \/ Produced("deepseek") \/ Produced("groq")

\* The i-th image lookup is under way: started and not yet returned.
InFlight(i) == lookups[i].st \in {"google", "serper"}

\* What the i-th lookup gives: Google's URL for its query when there is
\* one, else Serper's.
LookupUrl(i) ==
  IF GoogleImageUrl(LookupQuery(i)) # Null
  THEN GoogleImageUrl(LookupQuery(i))
  ELSE SerperImageUrl(LookupQuery(i))

\* Once the three lookups have returned, each image field of the base
\* record holds the result of its own lookup.
StoredInOwnField ==
  ((\A i \in 1..3 : lookups[i].st = "done") /\ IsObject(baseJson)) =>
    \A i \in 1..3 :
      /\ baseJson[ImageFields[i]] = lookups[i].url
      /\ lookups[i].url = LookupUrl(i)

\* The datasheet lookup starts only after the three image lookups have
\* returned.
DatasheetAfterLookups ==
  (pc = "datasheet" \/ ds.st # "idle" \/ Called("google", "datasheet")
     \/ Called("serper", "datasheet")) =>
    \A i \in 1..3 : lookups[i].st = "done"

\* C25 as stated: the three image lookups of a request are awaited in
\* parallel (all three are under way before any is awaited), each result is
\* stored in its own field, and the datasheet lookup starts only after all
\* three have returned.
C25_ParallelLookups ==
  /\ pc = "images" => \A i \in 1..3 : lookups[i].st # "idle"
  /\ StoredInOwnField
  /\ DatasheetAfterLookups

\* C25, amended: only rev3 awaits the three image lookups in parallel
\* (Promise.all): all three are started together, a step of one lookup
\* changes nothing of the others, of the base record or of any list, and the
\* fields are assigned when all three have returned, whatever the order in
\* which they returned.  rev1, rev2 and rev4 await them one after the other
\* in the order real, usage, pinout: a lookup is started only when the one
\* before it has returned and its field has been assigned.  In every
\* revision each field holds the result of its own lookup, and the
\* datasheet lookup starts only after all three have returned.
C25_LookupsThenDatasheet ==
  /\ [](pc = "images" =>
          IF rev = "rev3"
          THEN \A i \in 1..3 : lookups[i].st # "idle"
          ELSE /\ Cardinality({i \in 1..3 : InFlight(i)}) = 1
               /\ \A i \in 1..3 :
                    /\ (i > 1 /\ lookups[i].st # "idle") =>
                         lookups[i - 1].st = "done"
                    /\ lookups[i].st = "done" =>
                         baseJson[ImageFields[i]] = lookups[i].url)
  /\ [](StoredInOwnField /\ DatasheetAfterLookups)
  /\ [][(rev = "rev3" /\ pc = "images") =>
          /\ quotaWarnings' = quotaWarnings
          /\ pc' = "images" => baseJson' = baseJson
          /\ \E i \in 1..3 :
               /\ InFlight(i)
               /\ \A j \in 1..3 \ {i} : lookups'[j] = lookups[j]]_vars

\* rev3: the pinout lookup has returned a URL while the real and the usage
\* lookup are still under way; nothing is assigned yet and the datasheet
\* lookup has not started.
C25_Witness ==
  /\ rev = "rev3"
  /\ pc = "images"
  /\ lookups[3].st = "done"
  /\ Truthy(lookups[3].url)
  /\ lookups[3].url = LookupUrl(3)
  /\ lookups[1].st = "serper"
  /\ lookups[2].st = "google"
  /\ "pinout_image" \notin DOMAIN baseJson
  /\ ds.st = "idle"
  /\ ~Called("google", "datasheet")

====
